---------------------------- MODULE Spec2Model ----------------------------
(***************************************************************************)
(* A model of UserActivityService (src/unnamed/part_001): the cache-aside  *)
(* retrieval of a user's activity records, the aggregation of engagement   *)
(* metrics, cache invalidation and the bulk fan-out over several users.    *)
(*                                                                         *)
(* Strings are sequences of one-character strings, so that cache keys,     *)
(* base64 tags and redis glob patterns are computed character by           *)
(* character as the code computes them.  An optional value (a parameter    *)
(* that may be undefined, a result that may be null) is a sequence of      *)
(* length 0 or 1.  Time is in whole seconds since the epoch and the local  *)
(* time zone is UTC.                                                       *)
(*                                                                         *)
(* Every async method is a call record in `calls`; one action models one   *)
(* awaited I/O completing together with the code that then runs up to the  *)
(* next await.                                                             *)
(***************************************************************************)
EXTENDS Integers, Sequences, FiniteSets, TLC

VARIABLES
    cache,   \* the redis store: key -> [payload, expiresAt]
    now,     \* the wall clock, seconds since the epoch
    calls,   \* the invocations: id -> frame, promise and I/O history
    started, \* top-level invocations made so far
    ticks,   \* times the clock has advanced
    faults   \* store failures so far

vars == <<cache, now, calls, started, ticks, faults>>

(***************************************************************************)
(* Optional values                                                         *)
(***************************************************************************)
None == <<>>
Some(x) == <<x>>
IsSome(o) == Len(o) = 1

(***************************************************************************)
(* Characters and strings                                                  *)
(***************************************************************************)
\* The printable ASCII characters, code 32 (space) to code 126 (~); the entry
\* "grave" holds the place of code 96, which no string of the model contains.
Ascii ==
    <<" ", "!", "\"", "#", "$", "%", "&", "'", "(", ")", "*", "+", ",", "-", ".", "/",
      "0", "1", "2", "3", "4", "5", "6", "7", "8", "9", ":", ";", "<", "=", ">", "?",
      "@", "A", "B", "C", "D", "E", "F", "G", "H", "I", "J", "K", "L", "M", "N", "O",
      "P", "Q", "R", "S", "T", "U", "V", "W", "X", "Y", "Z", "[", "\\", "]", "^", "_",
      "grave", "a", "b", "c", "d", "e", "f", "g", "h", "i", "j", "k", "l", "m", "n", "o",
      "p", "q", "r", "s", "t", "u", "v", "w", "x", "y", "z", "{", "|", "}", "~">>

\* The byte Buffer.from(string) holds for an ASCII character.
CharCode(c) == 31 + (CHOOSE i \in 1..Len(Ascii) : Ascii[i] = c)

Digits == <<"0", "1", "2", "3", "4", "5", "6", "7", "8", "9">>

RECURSIVE NatToString(_)
NatToString(n) ==
    IF n < 10 THEN <<Digits[n + 1]>>
    ELSE NatToString(n \div 10) \o <<Digits[(n % 10) + 1]>>

\* String(value) of an integer, as a template literal renders it.
NumberToString(n) == IF n < 0 THEN <<"-">> \o NatToString(-n) ELSE NatToString(n)

\* n as at least `width` decimal digits, zero-padded on the left.
RECURSIVE PadStart(_, _)
PadStart(s, width) == IF Len(s) >= width THEN s ELSE PadStart(<<"0">> \o s, width)

RECURSIVE Join(_, _)
Join(parts, sep) ==
    IF Len(parts) = 0 THEN <<>>
    ELSE IF Len(parts) = 1 THEN parts[1]
    ELSE parts[1] \o sep \o Join(Tail(parts), sep)

(***************************************************************************)
(* Buffer.from(s).toString('base64')                                       *)
(***************************************************************************)
Base64Alphabet ==
    <<"A", "B", "C", "D", "E", "F", "G", "H", "I", "J", "K", "L", "M", "N", "O", "P",
      "Q", "R", "S", "T", "U", "V", "W", "X", "Y", "Z", "a", "b", "c", "d", "e", "f",
      "g", "h", "i", "j", "k", "l", "m", "n", "o", "p", "q", "r", "s", "t", "u", "v",
      "w", "x", "y", "z", "0", "1", "2", "3", "4", "5", "6", "7", "8", "9", "+", "/">>

\* Three bytes become four sextets; a last group of one or two bytes is padded
\* with "=".  Character i of the output is sextet (i - 1) % 4 of group
\* (i - 1) \div 4.
Base64(s) ==
    LET byte(i) == IF i <= Len(s) THEN CharCode(s[i]) ELSE 0
        sextet(first, k) ==
            CASE k = 0 -> byte(first) \div 4
              [] k = 1 -> ((byte(first) % 4) * 16) + (byte(first + 1) \div 16)
              [] k = 2 -> ((byte(first + 1) % 16) * 4) + (byte(first + 2) \div 64)
              [] k = 3 -> byte(first + 2) % 64
        char(i) ==
            LET first == (3 * ((i - 1) \div 4)) + 1
                k == (i - 1) % 4
            IN IF k = 0 \/ first + k - 1 <= Len(s)
               THEN Base64Alphabet[sextet(first, k) + 1]
               ELSE "="
    IN [i \in 1..(4 * ((Len(s) + 2) \div 3)) |-> char(i)]

(***************************************************************************)
(* String.prototype.localeCompare on ASCII strings: letters compare        *)
(* alphabetically whatever their case (the collation's primary weight),    *)
(* other characters come before the letters in code order; strings equal   *)
(* up to case are ordered lower case first.                                *)
(***************************************************************************)
IsUpper(c) == CharCode(c) >= 65 /\ CharCode(c) <= 90
IsLower(c) == CharCode(c) >= 97 /\ CharCode(c) <= 122

PrimaryWeight(c) ==
    IF IsUpper(c) THEN 1000 + (CharCode(c) - 65)
    ELSE IF IsLower(c) THEN 1000 + (CharCode(c) - 97)
    ELSE CharCode(c)

RECURSIVE ComparePrimary(_, _)
ComparePrimary(a, b) ==
    IF Len(a) = 0 /\ Len(b) = 0 THEN 0
    ELSE IF Len(a) = 0 THEN -1
    ELSE IF Len(b) = 0 THEN 1
    ELSE IF PrimaryWeight(a[1]) < PrimaryWeight(b[1]) THEN -1
    ELSE IF PrimaryWeight(a[1]) > PrimaryWeight(b[1]) THEN 1
    ELSE ComparePrimary(Tail(a), Tail(b))

RECURSIVE CompareCase(_, _)
CompareCase(a, b) ==
    IF Len(a) = 0 \/ Len(b) = 0 THEN 0
    ELSE IF IsLower(a[1]) /\ IsUpper(b[1]) THEN -1
    ELSE IF IsUpper(a[1]) /\ IsLower(b[1]) THEN 1
    ELSE CompareCase(Tail(a), Tail(b))

localeCompare(a, b) ==
    IF ComparePrimary(a, b) /= 0 THEN ComparePrimary(a, b) ELSE CompareCase(a, b)

(***************************************************************************)
(* Filters.  A filter object is the sequence of its own properties in      *)
(* insertion order, each [name, val]; a property's value is a string, a    *)
(* number or undefined.                                                    *)
(***************************************************************************)
StrVal(s) == [t |-> "str", s |-> s, n |-> 0]
NumVal(n) == [t |-> "num", s |-> <<>>, n |-> n]
Undefined == [t |-> "undef", s |-> <<>>, n |-> 0]

\* `${value}` of a property value that is not undefined.
ValueToString(v) == IF v.t = "num" THEN NumberToString(v.n) ELSE v.s

\* Array.prototype.sort with the comparator of generateCacheKey (a stable
\* insertion into the sorted prefix).
RECURSIVE InsertEntry(_, _)
InsertEntry(e, sorted) ==
    IF Len(sorted) = 0 THEN <<e>>
    ELSE IF localeCompare(e.name, sorted[1].name) < 0 THEN <<e>> \o sorted
    ELSE <<sorted[1]>> \o InsertEntry(e, Tail(sorted))

\* The entries are left in the order the object lists them.
SortEntriesKeepOrder(entries) == entries

RECURSIVE SortEntries(_)
SortEntries(entries) ==
    IF Len(entries) = 0 THEN <<>>
    ELSE InsertEntry(entries[Len(entries)],
                     SortEntries(SubSeq(entries, 1, Len(entries) - 1)))

IsDefined(e) == e.val.t /= "undef"

RECURSIVE EntryStrings(_)
EntryStrings(entries) ==
    IF Len(entries) = 0 THEN <<>>
    ELSE <<entries[1].name \o <<"=">> \o ValueToString(entries[1].val)>>
         \o EntryStrings(Tail(entries))

KeyRoot == <<"u", "s", "e", "r", "-", "a", "c", "t", "i", "v", "i", "t", "y">>
ActivityPrefix == <<"a", "c", "t", "i", "v", "i", "t", "y">>
MetricsPrefix == <<"m", "e", "t", "r", "i", "c", "s">>

\* The tag appended for a filter: nothing when no property survives.
FilterTag(entries) ==
    LET sortedEntries == SortEntries(SelectSeq(entries, IsDefined))
    IN IF Len(sortedEntries) > 0
       THEN <<":">> \o Base64(Join(EntryStrings(sortedEntries), <<"&">>))
       ELSE <<>>

\* A key that leaves the user id out.
generateCacheKeyWithoutUser(prefix, userId, filter) ==
    LET key == KeyRoot \o <<":">> \o prefix
    IN IF IsSome(filter) /\ Len(filter[1]) > 0
       THEN key \o FilterTag(filter[1])
       ELSE key

\* generateCacheKey(prefix, userId, filter); filter is None when the argument
\* is undefined.
generateCacheKey(prefix, userId, filter) ==
    LET key == KeyRoot \o <<":">> \o userId \o <<":">> \o prefix
    IN IF IsSome(filter) /\ Len(filter[1]) > 0
       THEN key \o FilterTag(filter[1])
       ELSE key

(***************************************************************************)
(* Dates.  A Date is its time value in seconds; getHours, getDay and       *)
(* setDate work in local time, which is UTC here.  The timestamp of an     *)
(* activity is a string, the ISO text of an instant.                       *)
(***************************************************************************)
SecondsPerDay == 24 * 60 * 60

getHours(t) == (t \div 3600) % 24

\* 0 is Sunday; day 0 of the epoch was a Thursday.
getDay(t) == ((t \div SecondsPerDay) + 4) % 7

\* The civil date of a day number (days since 1970-01-01), proleptic Gregorian.
CivilFromDays(days) ==
    LET z == days + 719468
        era == z \div 146097
        doe == z - (era * 146097)
        yoe == (doe - (doe \div 1460) + (doe \div 36524) - (doe \div 146096)) \div 365
        doy == doe - ((365 * yoe) + (yoe \div 4) - (yoe \div 100))
        mp == ((5 * doy) + 2) \div 153
        d == doy - (((153 * mp) + 2) \div 5) + 1
        m == IF mp < 10 THEN mp + 3 ELSE mp - 9
        y == yoe + (era * 400) + (IF m <= 2 THEN 1 ELSE 0)
    IN [year |-> y, month |-> m, day |-> d]

\* Date.prototype.toISOString: YYYY-MM-DDTHH:mm:ss.sssZ (years 0000 to 9999).
toISOString(t) ==
    LET date == CivilFromDays(t \div SecondsPerDay)
        secs == t % SecondsPerDay
    IN PadStart(NatToString(date.year), 4) \o <<"-">>
       \o PadStart(NatToString(date.month), 2) \o <<"-">>
       \o PadStart(NatToString(date.day), 2) \o <<"T">>
       \o PadStart(NatToString(secs \div 3600), 2) \o <<":">>
       \o PadStart(NatToString((secs \div 60) % 60), 2) \o <<":">>
       \o PadStart(NatToString(secs % 60), 2) \o <<".", "0", "0", "0", "Z">>

\* The day number of a civil date, the inverse of CivilFromDays.
DaysFromCivil(year, month, day) ==
    LET y == IF month <= 2 THEN year - 1 ELSE year
        era == y \div 400
        yoe == y - (era * 400)
        mp == IF month > 2 THEN month - 3 ELSE month + 9
        doy == (((153 * mp) + 2) \div 5) + day - 1
        doe == (yoe * 365) + (yoe \div 4) - (yoe \div 100) + doy
    IN (era * 146097) + doe - 719468

\* The number written by the decimal digits s.
RECURSIVE DigitsToNat(_)
DigitsToNat(s) ==
    IF Len(s) = 0 THEN 0
    ELSE (10 * DigitsToNat(SubSeq(s, 1, Len(s) - 1)))
         + (CHOOSE d \in 0..9 : Digits[d + 1] = s[Len(s)])

\* new Date(timestamp).getTime() for a text of the form YYYY-MM-DDTHH:mm:ssZ
\* or YYYY-MM-DDTHH:mm:ss.sssZ, to the second.
DateParse(s) ==
    (DaysFromCivil(DigitsToNat(SubSeq(s, 1, 4)), DigitsToNat(SubSeq(s, 6, 7)),
                   DigitsToNat(SubSeq(s, 9, 10))) * SecondsPerDay)
    + (DigitsToNat(SubSeq(s, 12, 13)) * 3600) + (DigitsToNat(SubSeq(s, 15, 16)) * 60)
    + DigitsToNat(SubSeq(s, 18, 19))

\* startDate.setDate(startDate.getDate() - timeRangeInDays) on the Date of t.
SubtractDays(t, days) == t - (days * SecondsPerDay)

(***************************************************************************)
(* The engagement score and the aggregation of activities                  *)
(***************************************************************************)
\* Math.log(k) in millionths, k = 1..12.
LnMicro ==
    <<0, 693147, 1098612, 1386294, 1609438, 1791759, 1945910, 2079442,
      2197225, 2302585, 2397895, 2484907>>

Micro == 1000 * 1000

Min(a, b) == IF a < b THEN a ELSE b
Max(a, b) == IF a > b THEN a ELSE b

\* Math.round of a value given in millionths: the nearest integer, a half up.
RoundMicro(x) == (x + (Micro \div 2)) \div Micro

\* The weighted score, rounded but not brought into the range 0 to 100.
calculateEngagementScoreUnclamped(metrics) ==
    RoundMicro(((LnMicro[metrics.totalActivities + 1] * 10 * 4) \div 10)
               + (IF metrics.daysSinceLastActivity >= 30 THEN 0
                  ELSE (30 - metrics.daysSinceLastActivity) * Micro)
               + (IF metrics.averageDurationSec >= 300 THEN 15 * Micro
                  ELSE (metrics.averageDurationSec * Micro) \div 20)
               + Min(15 * Micro,
                     Cardinality(DOMAIN metrics.activityByType) * 3 * Micro))

\* calculateEngagementScore(metrics); the factors are kept in millionths.
calculateEngagementScore(metrics) ==
    LET activityScore == LnMicro[metrics.totalActivities + 1] * 10
        \* Math.max(0, 1 - days / 30) times its weight 30
        recencyPoints == IF metrics.daysSinceLastActivity >= 30 THEN 0
                         ELSE (30 - metrics.daysSinceLastActivity) * Micro
        \* Math.min(1, averageDurationSec / 300) times its weight 15
        durationPoints == IF metrics.averageDurationSec >= 300 THEN 15 * Micro
                          ELSE (metrics.averageDurationSec * Micro) \div 20
        activityTypes == Cardinality(DOMAIN metrics.activityByType)
        \* Math.min(1, activityTypes / 5) times its weight 15
        diversityPoints == Min(15 * Micro, activityTypes * 3 * Micro)
        score == ((activityScore * 4) \div 10) + recencyPoints + durationPoints
                 + diversityPoints
    IN Min(100, Max(0, RoundMicro(score)))

RECURSIVE SumDurations(_)
SumDurations(activities) ==
    IF Len(activities) = 0 THEN 0
    ELSE (IF IsSome(activities[1].durationSec) /\ activities[1].durationSec[1] /= 0
          THEN activities[1].durationSec[1] ELSE 0)
         + SumDurations(Tail(activities))

\* latestActivityDate after the loop: it starts at new Date(0) and is replaced
\* by every strictly later timestamp.
RECURSIVE LatestActivityDate(_)
LatestActivityDate(activityDates) ==
    IF Len(activityDates) = 0 THEN 0
    ELSE Max(activityDates[Len(activityDates)],
             LatestActivityDate(SubSeq(activityDates, 1, Len(activityDates) - 1)))

\* activityDate of each iteration of the loop: new Date(activity.timestamp).
RECURSIVE ActivityDates(_)
ActivityDates(activities) ==
    IF Len(activities) = 0 THEN <<>>
    ELSE <<DateParse(activities[1].timestamp)>> \o ActivityDates(Tail(activities))

\* counts.lastIndexOf(Math.max(...counts)).
LastIndexOfMax(counts) ==
    CHOOSE i \in DOMAIN counts :
        /\ \A j \in DOMAIN counts : counts[j] <= counts[i]
        /\ \A j \in DOMAIN counts : counts[j] = counts[i] => j <= i

\* counts.indexOf(Math.max(...counts)) for counts indexed 0..n-1.
IndexOfMax(counts) ==
    CHOOSE i \in DOMAIN counts :
        /\ \A j \in DOMAIN counts : counts[j] <= counts[i]
        /\ \A j \in DOMAIN counts : counts[j] = counts[i] => i <= j

EmptyMetrics ==
    [totalActivities |-> 0, activityByType |-> <<>>, averageDurationSec |-> 0,
     mostActiveHour |-> 0, mostActiveDay |-> 0, daysSinceLastActivity |-> 0,
     engagementScore |-> 0]

\* The kinds of the ActivityType enum.
ActivityTypes ==
    {"PAGE_VIEW", "CLICK", "SCROLL", "FORM_SUBMISSION", "VIDEO_PLAY", "VIDEO_PAUSE",
     "VIDEO_COMPLETE", "DOWNLOAD", "SHARE", "COMMENT"}

\* Counters that start at 0 for every kind of the enum.
TypeCountsOfEveryKind(activities) ==
    [ty \in ActivityTypes |->
        Cardinality({i \in 1..Len(activities) : activities[i].type = ty})]

\* typeCounts after the loop: each activity adds one to the counter of its
\* type, a counter not yet there counting from 0.
RECURSIVE TypeCounts(_)
TypeCounts(activities) ==
    IF Len(activities) = 0 THEN <<>>
    ELSE LET before == TypeCounts(SubSeq(activities, 1, Len(activities) - 1))
             type == activities[Len(activities)].type
         IN [ty \in DOMAIN before \cup {type} |->
                IF ty = type
                THEN (IF ty \in DOMAIN before THEN before[ty] ELSE 0) + 1
                ELSE before[ty]]

\* The average over the activities that carry a duration only.
AverageDurationOfTimed(activities) ==
    LET timed == {i \in 1..Len(activities) : IsSome(activities[i].durationSec)}
    IN IF timed = {} THEN 0
       ELSE ((2 * SumDurations(activities)) + Cardinality(timed))
            \div (2 * Cardinality(timed))

\* Math.round(totalDuration / activities.length) for activities.length > 0:
\* the integer at or below the quotient plus one half.
AverageDuration(activities) ==
    ((2 * SumDurations(activities)) + Len(activities)) \div (2 * Len(activities))

\* The metrics processActivities has counted when the loop is done, before
\* the score is set.
CountedMetrics(activities, activityDate, currentDate) ==
    LET idx == 1..Len(activities)
        hourCounts == [h \in 0..23 |->
            Cardinality({i \in idx : getHours(activityDate[i]) = h})]
        dayCounts == [d \in 0..6 |->
            Cardinality({i \in idx : getDay(activityDate[i]) = d})]
        typeCounts == TypeCounts(activities)
        timeDiff == currentDate - LatestActivityDate(activityDate)
    IN [totalActivities |-> Len(activities),
        activityByType |-> typeCounts,
        averageDurationSec |-> AverageDuration(activities),
        mostActiveHour |-> IndexOfMax(hourCounts),
        mostActiveDay |-> IndexOfMax(dayCounts),
        daysSinceLastActivity |-> timeDiff \div SecondsPerDay,
        engagementScore |-> 0]

\* processActivities without its early return: for no activity the days are
\* counted from new Date(0).
processActivitiesWithoutGuard(activities, currentDate) ==
    IF Len(activities) = 0
    THEN [EmptyMetrics EXCEPT !.daysSinceLastActivity = currentDate \div SecondsPerDay]
    ELSE LET counted == CountedMetrics(activities, ActivityDates(activities), currentDate)
         IN [counted EXCEPT !.engagementScore = calculateEngagementScore(counted)]

\* processActivities(activities), with currentDate the clock it reads.
processActivities(activities, currentDate) ==
    IF Len(activities) = 0 THEN EmptyMetrics
    ELSE LET counted == CountedMetrics(activities, ActivityDates(activities), currentDate)
         IN [counted EXCEPT !.engagementScore = calculateEngagementScore(counted)]

(***************************************************************************)
(* Configuration (DEFAULT_API_CONFIG, DEFAULT_CACHE_CONFIG)                *)
(***************************************************************************)
activityTtlSec == 300
metricsTtlSec == 1800
timeoutMs == 5000

(***************************************************************************)
(* Bounds of the model                                                     *)
(***************************************************************************)
\* Invocations by callers over a run of Spec, and over a run of SpecBulk.
MaxCalls == 2
MaxBulkCalls == 1
\* Invocations by callers in flight at once.
MaxInFlight == 1
\* Length of the id list given to bulkProcessUserMetrics.
MaxIds == 3
\* Times the clock advances.
MaxTicks == 1
\* Store operations (get, setex, keys, del) that throw, over a run.
MaxFaults == 1

\* The clock when the service starts: 2023-05-02T10:30:00Z.
StartTime == (19479 * SecondsPerDay) + (10 * 3600) + (30 * 60)

(***************************************************************************)
(* Inputs                                                                  *)
(***************************************************************************)
User1 == <<"u", "1">>
User2 == <<"u", "2">>
Users == {User1, User2}

LimitName == <<"l", "i", "m", "i", "t">>
StartDateName == <<"s", "t", "a", "r", "t", "D", "a", "t", "e">>
TimeRangeName ==
    <<"t", "i", "m", "e", "R", "a", "n", "g", "e", "I", "n", "D", "a", "y", "s">>

\* The filter argument of getUserActivity: undefined, or {limit: 5}.
Filters == {None, Some(<<[name |-> LimitName, val |-> NumVal(5)]>>)}

EndDateName == <<"e", "n", "d", "D", "a", "t", "e">>

\* A filter as the activity route builds it from the query string, here with
\* an endDate one day before its startDate; and the filters a caller may pass.
BackwardWindow ==
    Some(<<[name |-> StartDateName, val |-> StrVal(toISOString(StartTime))],
           [name |-> EndDateName,
            val |-> StrVal(toISOString(StartTime - SecondsPerDay))]>>)

RequestFilters == Filters \cup {BackwardWindow}

\* The timeRangeInDays argument: undefined, or 7.
TimeRanges == {None, Some(7)}

\* What the activity API may answer for a user: no activity, or the three
\* activities of 2023-05-01 (a page view and a click in hour 10, a video play
\* of 120 s in hour 11).
Activity(id, userId, type, timestamp, durationSec) ==
    [id |-> id, userId |-> userId, type |-> type, timestamp |-> timestamp,
     durationSec |-> durationSec]

mockActivities(userId) ==
    <<Activity("activity1", userId, "PAGE_VIEW",
               <<"2", "0", "2", "3", "-", "0", "5", "-", "0", "1", "T",
                 "1", "0", ":", "0", "0", ":", "0", "0", "Z">>, None),
      Activity("activity2", userId, "CLICK",
               <<"2", "0", "2", "3", "-", "0", "5", "-", "0", "1", "T",
                 "1", "0", ":", "0", "5", ":", "0", "0", "Z">>, None),
      Activity("activity3", userId, "VIDEO_PLAY",
               <<"2", "0", "2", "3", "-", "0", "5", "-", "0", "1", "T",
                 "1", "1", ":", "0", "0", ":", "0", "0", "Z">>, Some(120))>>

SourceData(userId) == {<<>>, mockActivities(userId)}

\* What a failing request rejects with, and what a failing store command
\* rejects with.
SourceErrors == {"Request failed with status code 500"}
StoreError == "Connection is closed."

(***************************************************************************)
(* JSON.  A payload is JSON text, given by the document it denotes, or     *)
(* text that makes JSON.parse throw.  What the service stringifies is JSON *)
(* data already (activities as the API sent them, with string timestamps;  *)
(* metrics of finite numbers), so the document parsed is the value that    *)
(* was stringified.                                                        *)
(***************************************************************************)
JSONStringify(v) == [text |-> "json", doc |-> v]
NotJSON == [text |-> "garbage", doc |-> <<>>]
JSONParseThrows(payload) == payload.text /= "json"
JSONParse(payload) == payload.doc

(***************************************************************************)
(* The store.  `cache` holds the keys that have not expired.               *)
(***************************************************************************)
\* getFromCache(key): the parsed value or null, and whether it logged a warning.
\* storeFails: this.cacheClient.get rejects.
getFromCache(store, key, storeFails) ==
    IF storeFails THEN [value |-> None, warned |-> TRUE]
    ELSE IF key \notin DOMAIN store THEN [value |-> None, warned |-> FALSE]
    ELSE IF JSONParseThrows(store[key].payload) THEN [value |-> None, warned |-> TRUE]
    ELSE [value |-> Some(JSONParse(store[key].payload)), warned |-> FALSE]

\* SETEX key ttl payload at time t: redis rejects a ttl that is not positive.
Setex(store, key, ttlSeconds, payload, t) ==
    [k \in DOMAIN store \cup {key} |->
        IF k = key THEN [payload |-> payload, expiresAt |-> t + ttlSeconds]
        ELSE store[k]]

\* setInCache(key, data, ttlSeconds) up to its await: the data is serialized and
\* the SETEX command issued.
setInCache(key, data, ttlSeconds) ==
    [key |-> key, ttl |-> ttlSeconds, payload |-> JSONStringify(data)]

\* The SETEX command completes at time t: the store afterwards, and whether
\* setInCache logged a warning.  storeFails: this.cacheClient.setex rejects.
SetexOutcome(store, command, storeFails, t) ==
    IF storeFails \/ command.ttl <= 0 THEN [store |-> store, warned |-> TRUE]
    ELSE [store |-> Setex(store, command.key, command.ttl, command.payload, t),
          warned |-> FALSE]

\* KEYS pattern: redis glob matching with *, ? and \ (an escaped character);
\* character classes [..] do not occur in the patterns of the model.  A run of
\* ordinary characters is matched in one step.
GlobSpecial == {"*", "?", "\\"}

LiteralRun(pattern) ==
    LET special == {i \in 1..Len(pattern) : pattern[i] \in GlobSpecial}
    IN IF special = {} THEN Len(pattern)
       ELSE (CHOOSE i \in special : \A j \in special : i <= j) - 1

RECURSIVE GlobMatch(_, _)
GlobMatch(pattern, s) ==
    LET run == LiteralRun(pattern)
    IN CASE Len(pattern) = 0 -> Len(s) = 0
         [] run > 0 ->
              /\ Len(s) >= run
              /\ SubSeq(s, 1, run) = SubSeq(pattern, 1, run)
              /\ GlobMatch(SubSeq(pattern, run + 1, Len(pattern)),
                           SubSeq(s, run + 1, Len(s)))
         [] run = 0 /\ pattern[1] = "*" ->
              \E k \in 0..Len(s) : GlobMatch(Tail(pattern), SubSeq(s, k + 1, Len(s)))
         [] run = 0 /\ pattern[1] = "?" ->
              Len(s) > 0 /\ GlobMatch(Tail(pattern), Tail(s))
         [] run = 0 /\ pattern[1] = "\\" ->
              /\ Len(s) > 0
              /\ IF Len(pattern) > 1
                 THEN pattern[2] = s[1] /\ GlobMatch(Tail(Tail(pattern)), Tail(s))
                 ELSE pattern[1] = s[1] /\ GlobMatch(Tail(pattern), Tail(s))

\* `user-activity:${userId}:*`
InvalidationPattern(userId) == KeyRoot \o <<":">> \o userId \o <<":", "*">>

Keys(store, pattern) == {k \in DOMAIN store : GlobMatch(pattern, k)}

Del(store, keys) == [k \in DOMAIN store \ keys |-> store[k]]

\* What is left of the store at time t.
Unexpired(store, t) == [k \in {j \in DOMAIN store : store[j].expiresAt > t} |-> store[k]]

(***************************************************************************)
(* Call records.  A record is the frame of one invocation of an async      *)
(* method (arguments, locals, where it is suspended), its promise (status, *)
(* value, error) and what it has issued so far: cache reads, requests to   *)
(* the API, cache writes, deletes and log entries.                         *)
(*                                                                         *)
(* The actions also note what the environment did to the call: `found`,    *)
(* the payload the store held under cacheKey when the read ran, and        *)
(* `readFailed`, whether that read threw; `response`, the data the API     *)
(* answered, or `failure`, the error it answered; `writeFailed`, whether   *)
(* the SETEX threw; `aggregatedAt`, the clock when getUserActivity         *)
(* returned to calculateEngagementMetrics; `received`, the calls for the    *)
(* same user that the API had already answered when this call was made.    *)
(***************************************************************************)
GetUserActivityOp == "getUserActivity"
CalculateOp == "calculateEngagementMetrics"
InvalidateOp == "invalidateUserCache"
BulkOp == "bulkProcessUserMetrics"

NewCall(op, parent, userId, pc) ==
    [op |-> op, parent |-> parent, userId |-> userId, pc |-> pc,
     filter |-> None, timeRangeInDays |-> None, userIds |-> <<>>,
     uniqueUserIds |-> <<>>, children |-> <<>>,
     cacheKey |-> <<>>, activities |-> <<>>, metrics |-> EmptyMetrics, keys |-> {},
     found |-> None, readFailed |-> FALSE, response |-> None, failure |-> None,
     writeFailed |-> FALSE, aggregatedAt |-> 0, received |-> {},
     status |-> "pending", value |-> <<>>, error |-> "",
     reads |-> <<>>, requests |-> <<>>, writes |-> <<>>, dels |-> <<>>, logs |-> <<>>]

LogEntry(level, message, userId, error) ==
    [level |-> level, message |-> message, userId |-> userId, error |-> error]

\* The entry is logged without its context.
handleErrorWithoutContext(message, error, userId) ==
    LogEntry("error", message, None, Some(error))

\* handleError(message, error, {userId}): one entry at error level.
handleError(message, error, userId) == LogEntry("error", message, Some(userId), Some(error))

CacheWarning(message) == LogEntry("warn", message, None, Some(StoreError))

Fulfil(call, value, logs) ==
    [call EXCEPT !.pc = "DONE", !.status = "fulfilled", !.value = value,
                 !.logs = call.logs \o logs]

Reject(call, error, logs) ==
    [call EXCEPT !.pc = "DONE", !.status = "rejected", !.error = error,
                 !.logs = call.logs \o logs]

Settled(call) == call.status /= "pending"

Put(cs, id, call) == [i \in DOMAIN cs \cup {id} |-> IF i = id THEN call ELSE cs[i]]

RECURSIVE Root(_, _)
Root(cs, id) == IF cs[id].parent = 0 THEN id ELSE Root(cs, cs[id].parent)

\* The records of the top-level calls still pending, with their sub-calls: a
\* settled top-level call has been handed to its caller.
Retained(cs) == [i \in {j \in DOMAIN cs : ~Settled(cs[Root(cs, j)])} |-> cs[i]]

\* The k smallest ids not in use.
RECURSIVE FreshIds(_, _)
FreshIds(used, k) ==
    IF k = 0 THEN <<>>
    ELSE LET id == CHOOSE i \in 1..(Cardinality(used) + 1) : i \notin used
         IN <<id>> \o FreshIds(used \cup {id}, k - 1)

\* Invocations by callers that have not settled.
InFlight(cs) == Cardinality({i \in DOMAIN cs : cs[i].parent = 0 /\ ~Settled(cs[i])})

\* The store failures the environment may still inject.
FaultChoices == IF faults < MaxFaults THEN BOOLEAN ELSE {FALSE}
Count(fails) == IF fails THEN 1 ELSE 0

(***************************************************************************)
(* getUserActivity(userId, filter)                                         *)
(***************************************************************************)
\* The value of the filter's property, undefined when it has none.
FilterValue(filter, name) ==
    IF IsSome(filter) /\ \E i \in 1..Len(filter[1]) : filter[1][i].name = name
    THEN filter[1][CHOOSE i \in 1..Len(filter[1]) : filter[1][i].name = name].val
    ELSE Undefined

\* The filter names an endDate that precedes its startDate.
EndsBeforeStart(filter) ==
    LET startDate == FilterValue(filter, StartDateName)
        endDate == FilterValue(filter, EndDateName)
    IN /\ startDate.t = "str" /\ endDate.t = "str"
       /\ DateParse(endDate.s) < DateParse(startDate.s)

\* A frame that checks the filter first: a backward window is rejected and
\* nothing is read.
GetUserActivityFrameValidating(parent, userId, filter) ==
    IF EndsBeforeStart(filter)
    THEN Reject([NewCall(GetUserActivityOp, parent, userId, "DONE") EXCEPT
                    !.filter = filter],
                "ValidationError", <<>>)
    ELSE LET cacheKey == generateCacheKey(ActivityPrefix, userId, filter)
         IN [NewCall(GetUserActivityOp, parent, userId, "CHECK_CACHE") EXCEPT
                !.filter = filter, !.cacheKey = cacheKey, !.reads = <<cacheKey>>]

\* The frame at the first await: the key is generated and the cache read issued.
GetUserActivityFrame(parent, userId, filter) ==
    LET cacheKey == generateCacheKey(ActivityPrefix, userId, filter)
    IN [NewCall(GetUserActivityOp, parent, userId, "CHECK_CACHE") EXCEPT
            !.filter = filter, !.cacheKey = cacheKey, !.reads = <<cacheKey>>]

\* A hit test that never succeeds: the cached value is ignored.
IsHitNever(cachedData) == FALSE

\* A hit test that takes an empty value for no value.
IsHitNonEmpty(cachedData) == IsSome(cachedData) /\ DOMAIN cachedData[1] /= {}

\* if (cachedData): the hit test on what getFromCache returned.
IsHit(cachedData) == IsSome(cachedData)

\* A cache read whose failure fails the request instead of falling back.
AfterActivityReadFailingOnWarning(call, cachedData, warned) ==
    IF warned
    THEN Reject(call, StoreError,
                <<handleError("Failed to fetch user activity", StoreError, call.userId)>>)
    ELSE IF IsSome(cachedData) THEN Fulfil(call, cachedData[1], <<>>)
    ELSE [call EXCEPT
             !.pc = "CALL_SOURCE",
             !.requests = call.requests \o
                 <<[userId |-> call.userId, params |-> call.filter,
                    timeout |-> timeoutMs]>>]

\* The cache read returns: a hit returns the cached activities, a miss issues
\* the request to the API.
AfterActivityRead(call, cachedData, warned) ==
    LET seen == IF warned
                THEN <<CacheWarning("Cache retrieval failed, falling back to API")>>
                ELSE <<>>
    IN IF IsHit(cachedData)
       THEN Fulfil(call, cachedData[1],
                   seen \o <<LogEntry("debug", "Retrieved user activity from cache",
                                      Some(call.userId), None)>>)
       ELSE [call EXCEPT
                !.pc = "CALL_SOURCE",
                !.requests = call.requests \o
                    <<[userId |-> call.userId, params |-> call.filter,
                       timeout |-> timeoutMs]>>,
                !.logs = call.logs \o seen \o
                    <<LogEntry("debug", "Fetching user activity from API",
                               Some(call.userId), None)>>]

\* The activities are cached under the key of the unfiltered request.
AfterSourceSuccessUnfilteredKey(call, data) ==
    [call EXCEPT
        !.pc = "STORE_CACHE", !.activities = data,
        !.writes = call.writes \o
            <<setInCache(generateCacheKey(ActivityPrefix, call.userId, None), data,
                         activityTtlSec)>>]

\* The write is detached: the SETEX is issued and the activities are returned
\* without awaiting it.
AfterSourceSuccessDetached(call, data) ==
    Fulfil([call EXCEPT
               !.activities = data,
               !.writes = call.writes \o <<setInCache(call.cacheKey, data, activityTtlSec)>>],
           data, <<>>)

\* The request succeeded: the activities are handed to setInCache.
AfterSourceSuccess(call, data) ==
    [call EXCEPT
        !.pc = "STORE_CACHE", !.activities = data,
        !.writes = call.writes \o <<setInCache(call.cacheKey, data, activityTtlSec)>>]

\* The error is logged and an empty list returned in its place.
AfterSourceFailureSwallowed(call, error) ==
    Fulfil(call, <<>>, <<handleError("Failed to fetch user activity", error, call.userId)>>)

\* The request failed: the catch block logs and rethrows.
AfterSourceFailure(call, error) ==
    Reject(call, error, <<handleError("Failed to fetch user activity", error, call.userId)>>)

\* A failed cache write fails the request.
AfterActivityWriteFailing(call, warned) ==
    IF warned
    THEN Reject(call, StoreError,
                <<handleError("Failed to fetch user activity", StoreError, call.userId)>>)
    ELSE Fulfil(call, call.activities, <<>>)

\* setInCache returned: the activities fetched are the result.
AfterActivityWrite(call, warned) ==
    Fulfil(call, call.activities,
           IF warned THEN <<CacheWarning("Failed to cache data")>> ELSE <<>>)

CallGetUserActivity(userId, filter) ==
    /\ InFlight(calls) < MaxInFlight
    /\ LET kept == Retained(calls)
           id == FreshIds(DOMAIN kept, 1)[1]
       IN calls' = Put(kept, id, GetUserActivityFrame(0, userId, filter))
    /\ started' = started + 1
    /\ UNCHANGED <<cache, now, ticks, faults>>

GUA_CacheRead(c) ==
    /\ calls[c].op = GetUserActivityOp /\ calls[c].pc = "CHECK_CACHE"
    /\ \E storeFails \in FaultChoices :
         LET call == calls[c]
             read == getFromCache(cache, call.cacheKey, storeFails)
             noted == [call EXCEPT
                          !.found = IF call.cacheKey \in DOMAIN cache
                                    THEN Some(cache[call.cacheKey].payload) ELSE None,
                          !.readFailed = storeFails]
         IN /\ calls' = Put(calls, c, AfterActivityRead(noted, read.value, read.warned))
            /\ faults' = faults + Count(storeFails)
    /\ UNCHANGED <<cache, now, started, ticks>>

GUA_SourceSuccess(c) ==
    /\ calls[c].op = GetUserActivityOp /\ calls[c].pc = "CALL_SOURCE"
    /\ \E data \in SourceData(calls[c].userId) :
         calls' = Put(calls, c,
             [AfterSourceSuccess(calls[c], data) EXCEPT !.response = Some(data)])
    /\ UNCHANGED <<cache, now, started, ticks, faults>>

GUA_SourceFailure(c) ==
    /\ calls[c].op = GetUserActivityOp /\ calls[c].pc = "CALL_SOURCE"
    /\ \E error \in SourceErrors :
         calls' = Put(calls, c,
             [AfterSourceFailure(calls[c], error) EXCEPT !.failure = Some(error)])
    /\ UNCHANGED <<cache, now, started, ticks, faults>>

GUA_CacheWrite(c) ==
    /\ calls[c].op = GetUserActivityOp /\ calls[c].pc = "STORE_CACHE"
    /\ \E storeFails \in FaultChoices :
         LET call == calls[c]
             write == SetexOutcome(cache, call.writes[Len(call.writes)], storeFails, now)
         IN /\ cache' = write.store
            /\ calls' = Put(calls, c,
                 [AfterActivityWrite(call, write.warned) EXCEPT
                     !.writeFailed = storeFails])
            /\ faults' = faults + Count(storeFails)
    /\ UNCHANGED <<now, started, ticks>>

(***************************************************************************)
(* calculateEngagementMetrics(userId, timeRangeInDays)                     *)
(***************************************************************************)
\* The object { timeRangeInDays } given to generateCacheKey.
MetricsKeyFilter(timeRangeInDays) ==
    Some(<<[name |-> TimeRangeName,
            val |-> IF IsSome(timeRangeInDays) THEN NumVal(timeRangeInDays[1])
                    ELSE Undefined]>>)

CalculateFrame(parent, userId, timeRangeInDays) ==
    LET cacheKey == generateCacheKey(MetricsPrefix, userId,
                                     MetricsKeyFilter(timeRangeInDays))
    IN [NewCall(CalculateOp, parent, userId, "CHECK_CACHE") EXCEPT
            !.timeRangeInDays = timeRangeInDays, !.cacheKey = cacheKey,
            !.reads = <<cacheKey>>]

\* The filter built for the fetch at time t: startDate only if (timeRangeInDays).
FetchFilter(timeRangeInDays, t) ==
    Some(IF IsSome(timeRangeInDays) /\ timeRangeInDays[1] /= 0
         THEN <<[name |-> StartDateName,
                 val |-> StrVal(toISOString(SubtractDays(t, timeRangeInDays[1])))]>>
         ELSE <<>>)

\* The cached metrics are never used: the activities are always fetched.
AfterMetricsReadAlwaysFetch(call, cachedData, warned, child) ==
    [call EXCEPT !.pc = "FETCH_ACTIVITY", !.children = <<child>>]

\* The cache read returns: a hit returns the cached metrics, a miss goes on to
\* getUserActivity (whose frame the action creates as `child`).
AfterMetricsRead(call, cachedData, warned, child) ==
    LET seen == IF warned
                THEN <<CacheWarning("Cache retrieval failed, falling back to API")>>
                ELSE <<>>
    IN IF IsHit(cachedData)
       THEN Fulfil(call, cachedData[1],
                   seen \o <<LogEntry("debug", "Retrieved engagement metrics from cache",
                                      Some(call.userId), None)>>)
       ELSE [call EXCEPT !.pc = "FETCH_ACTIVITY", !.children = <<child>>,
                         !.logs = call.logs \o seen]

\* The metrics are aggregated from the frame's own (still empty) activities
\* instead of those getUserActivity returned.
AfterActivityReturnedStale(call, fetch, t) ==
    IF fetch.status = "fulfilled"
    THEN LET metrics == processActivities(call.activities, t)
         IN [call EXCEPT
                !.pc = "STORE_CACHE", !.metrics = metrics,
                !.writes = call.writes \o
                    <<setInCache(call.cacheKey, metrics, metricsTtlSec)>>]
    ELSE Reject(call, fetch.error,
                <<handleError("Failed to calculate engagement metrics", fetch.error,
                              call.userId)>>)

\* getUserActivity settled at time t: its activities are aggregated and handed
\* to setInCache, or its error is logged and rethrown.
AfterActivityReturned(call, fetch, t) ==
    IF fetch.status = "fulfilled"
    THEN LET metrics == processActivities(fetch.value, t)
         IN [call EXCEPT
                !.pc = "STORE_CACHE", !.activities = fetch.value, !.metrics = metrics,
                !.writes = call.writes \o
                    <<setInCache(call.cacheKey, metrics, metricsTtlSec)>>]
    ELSE Reject(call, fetch.error,
                <<handleError("Failed to calculate engagement metrics", fetch.error,
                              call.userId)>>)

\* setInCache returned: the metrics computed are the result.
AfterMetricsWrite(call, warned) ==
    Fulfil(call, call.metrics,
           IF warned THEN <<CacheWarning("Failed to cache data")>> ELSE <<>>)

CallCalculateEngagementMetrics(userId, timeRangeInDays) ==
    /\ InFlight(calls) < MaxInFlight
    /\ LET kept == Retained(calls)
           id == FreshIds(DOMAIN kept, 1)[1]
       IN calls' = Put(kept, id, CalculateFrame(0, userId, timeRangeInDays))
    /\ started' = started + 1
    /\ UNCHANGED <<cache, now, ticks, faults>>

CEM_CacheRead(c) ==
    /\ calls[c].op = CalculateOp /\ calls[c].pc = "CHECK_CACHE"
    /\ \E storeFails \in FaultChoices :
         LET call == calls[c]
             read == getFromCache(cache, call.cacheKey, storeFails)
             noted == [call EXCEPT
                          !.found = IF call.cacheKey \in DOMAIN cache
                                    THEN Some(cache[call.cacheKey].payload) ELSE None,
                          !.readFailed = storeFails]
             child == FreshIds(DOMAIN calls, 1)[1]
             after == AfterMetricsRead(noted, read.value, read.warned, child)
         IN /\ calls' =
                 IF Settled(after) THEN Put(calls, c, after)
                 ELSE Put(Put(calls, c, after), child,
                          GetUserActivityFrame(c, call.userId,
                              FetchFilter(call.timeRangeInDays, now)))
            /\ faults' = faults + Count(storeFails)
    /\ UNCHANGED <<cache, now, started, ticks>>

CEM_ActivityReturned(c) ==
    /\ calls[c].op = CalculateOp /\ calls[c].pc = "FETCH_ACTIVITY"
    /\ Settled(calls[calls[c].children[1]])
    /\ calls' = Put(calls, c,
          [AfterActivityReturned(calls[c], calls[calls[c].children[1]], now) EXCEPT
              !.aggregatedAt = now])
    /\ UNCHANGED <<cache, now, started, ticks, faults>>

CEM_CacheWrite(c) ==
    /\ calls[c].op = CalculateOp /\ calls[c].pc = "STORE_CACHE"
    /\ \E storeFails \in FaultChoices :
         LET call == calls[c]
             write == SetexOutcome(cache, call.writes[Len(call.writes)], storeFails, now)
         IN /\ cache' = write.store
            /\ calls' = Put(calls, c,
                 [AfterMetricsWrite(call, write.warned) EXCEPT
                     !.writeFailed = storeFails])
            /\ faults' = faults + Count(storeFails)
    /\ UNCHANGED <<now, started, ticks>>

(***************************************************************************)
(* invalidateUserCache(userId)                                             *)
(***************************************************************************)
\* DEL is issued whatever KEYS returned.
AfterKeysAlwaysDel(call, keys) ==
    [call EXCEPT !.pc = "DEL", !.keys = keys, !.dels = call.dels \o <<keys>>]

\* KEYS returned: DEL is issued for the keys, or there is nothing to delete.
AfterKeys(call, keys) ==
    IF Cardinality(keys) > 0
    THEN [call EXCEPT !.pc = "DEL", !.keys = keys, !.dels = call.dels \o <<keys>>]
    ELSE Fulfil(call, Undefined,
                <<LogEntry("debug", "No cache to invalidate", Some(call.userId), None)>>)

\* The failure is logged and the call returns as if nothing had happened.
AfterStoreFailureSwallowed(call, error) ==
    Fulfil(call, <<>>,
           <<handleError("Failed to invalidate user cache", error, call.userId)>>)

\* KEYS or DEL rejected: the catch block logs and rethrows.
AfterStoreFailure(call, error) ==
    Reject(call, error, <<handleError("Failed to invalidate user cache", error, call.userId)>>)

\* The call returns the number of keys it handed to DEL.
AfterDelReturningCount(call) ==
    Fulfil(call, NumVal(Cardinality(call.keys)),
           <<LogEntry("info", "Invalidated user cache", Some(call.userId), None)>>)

\* DEL returned: the outcome is logged and the method ends without a value.
AfterDel(call) ==
    Fulfil(call, Undefined,
           <<LogEntry("info", "Invalidated user cache", Some(call.userId), None)>>)

CallInvalidateUserCache(userId) ==
    /\ InFlight(calls) < MaxInFlight
    /\ LET kept == Retained(calls)
           id == FreshIds(DOMAIN kept, 1)[1]
       IN calls' = Put(kept, id, NewCall(InvalidateOp, 0, userId, "KEYS"))
    /\ started' = started + 1
    /\ UNCHANGED <<cache, now, ticks, faults>>

INV_Keys(c) ==
    /\ calls[c].op = InvalidateOp /\ calls[c].pc = "KEYS"
    /\ \E storeFails \in FaultChoices :
         /\ calls' = Put(calls, c,
               IF storeFails THEN AfterStoreFailure(calls[c], StoreError)
               ELSE AfterKeys(calls[c],
                              Keys(cache, InvalidationPattern(calls[c].userId))))
         /\ faults' = faults + Count(storeFails)
    /\ UNCHANGED <<cache, now, started, ticks>>

INV_Del(c) ==
    /\ calls[c].op = InvalidateOp /\ calls[c].pc = "DEL"
    /\ \E storeFails \in FaultChoices :
         /\ cache' = IF storeFails THEN cache ELSE Del(cache, calls[c].keys)
         /\ calls' = Put(calls, c,
               IF storeFails THEN AfterStoreFailure(calls[c], StoreError)
               ELSE AfterDel(calls[c]))
         /\ faults' = faults + Count(storeFails)
    /\ UNCHANGED <<now, started, ticks>>

(***************************************************************************)
(* bulkProcessUserMetrics(userIds, timeRangeInDays)                        *)
(***************************************************************************)
\* The ids as given, duplicates kept.
NotUnique(userIds) == userIds

\* [...new Set(userIds)]: the ids in order of first occurrence.
RECURSIVE Unique(_)
Unique(userIds) ==
    IF Len(userIds) = 0 THEN <<>>
    ELSE LET before == Unique(SubSeq(userIds, 1, Len(userIds) - 1))
             last == userIds[Len(userIds)]
         IN IF \E i \in 1..Len(before) : before[i] = last THEN before
            ELSE Append(before, last)

\* Every result carries the first user's id.
SettledResultFirstUser(cs, call, i) ==
    LET computed == cs[call.children[i]]
    IN [status |-> computed.status,
        value |-> [userId |-> call.uniqueUserIds[1], metrics |-> computed.value],
        reason |-> computed.error]

\* What Promise.allSettled gives for the mapped call of uniqueUserIds[i].
SettledResult(cs, call, i) ==
    LET computed == cs[call.children[i]]
    IN [status |-> computed.status,
        value |-> [userId |-> call.uniqueUserIds[i], metrics |-> computed.value],
        reason |-> computed.error]

\* results.forEach: the map of the fulfilled results, an error entry for each
\* rejected one, and the closing info entry.
RECURSIVE BulkErrorLogs(_, _, _)
BulkErrorLogs(cs, call, i) ==
    IF i > Len(call.children) THEN <<>>
    ELSE (IF SettledResult(cs, call, i).status = "fulfilled" THEN <<>>
          ELSE <<LogEntry("error", "Failed to process user metrics", None,
                          Some(SettledResult(cs, call, i).reason))>>)
         \o BulkErrorLogs(cs, call, i + 1)

MetricsMap(cs, call) ==
    LET fulfilled == {i \in 1..Len(call.children) :
                         SettledResult(cs, call, i).status = "fulfilled"}
    IN [u \in {SettledResult(cs, call, i).value.userId : i \in fulfilled} |->
           SettledResult(cs, call,
               CHOOSE i \in fulfilled :
                   /\ SettledResult(cs, call, i).value.userId = u
                   /\ \A j \in fulfilled :
                        SettledResult(cs, call, j).value.userId = u => j <= i
           ).value.metrics]

\* Promise.all in place of Promise.allSettled: one rejection rejects the call.
AfterAllSettledFailFast(cs, call) ==
    IF \E i \in 1..Len(call.children) : cs[call.children[i]].status = "rejected"
    THEN Reject(call,
                cs[call.children[CHOOSE i \in 1..Len(call.children) :
                       cs[call.children[i]].status = "rejected"]].error, <<>>)
    ELSE Fulfil(call, MetricsMap(cs, call), <<>>)

AfterAllSettled(cs, call) ==
    Fulfil(call, MetricsMap(cs, call),
           BulkErrorLogs(cs, call, 1)
           \o <<LogEntry("info", "Bulk processed user metrics", None, None)>>)

UserIdLists == UNION {[1..n -> Users] : n \in 0..MaxIds}

CallBulkProcessUserMetrics(userIds, timeRangeInDays) ==
    LET uniqueUserIds == Unique(userIds)
        kept == Retained(calls)
        ids == FreshIds(DOMAIN kept, 1 + Len(uniqueUserIds))
        bulk == [NewCall(BulkOp, 0, <<>>, "AWAIT_ALL") EXCEPT
                    !.userIds = userIds, !.timeRangeInDays = timeRangeInDays,
                    !.uniqueUserIds = uniqueUserIds,
                    !.children = SubSeq(ids, 2, Len(ids))]
    IN /\ InFlight(calls) < MaxInFlight
       /\ calls' = [i \in DOMAIN kept \cup {ids[j] : j \in 1..Len(ids)} |->
                      IF i = ids[1] THEN bulk
                      ELSE IF i \in DOMAIN kept THEN kept[i]
                      ELSE CalculateFrame(ids[1],
                               uniqueUserIds[(CHOOSE j \in 2..Len(ids) : ids[j] = i) - 1],
                               timeRangeInDays)]
       /\ started' = started + 1
       /\ UNCHANGED <<cache, now, ticks, faults>>

\* Promise.race in place of Promise.allSettled: the first to settle resumes
\* the call.
AnySettled(cs, call) ==
    \/ Len(call.children) = 0
    \/ \E i \in 1..Len(call.children) : Settled(cs[call.children[i]])

\* The promise of Promise.allSettled resolves: every mapped call has settled.
AllSettled(cs, call) ==
    \A i \in 1..Len(call.children) : Settled(cs[call.children[i]])

Bulk_AllSettled(c) ==
    /\ calls[c].op = BulkOp /\ calls[c].pc = "AWAIT_ALL"
    /\ AllSettled(calls, calls[c])
    /\ calls' = Put(calls, c, AfterAllSettled(calls, calls[c]))
    /\ UNCHANGED <<cache, now, started, ticks, faults>>

(***************************************************************************)
(* The environment: time passes and entries expire; a payload in the store *)
(* is damaged.                                                             *)
(***************************************************************************)
TickSteps == {activityTtlSec, metricsTtlSec}
BulkTickSteps == {metricsTtlSec}

Tick(dt) ==
    /\ ticks < MaxTicks
    /\ ticks' = ticks + 1
    /\ now' = now + dt
    /\ cache' = Unexpired(cache, now + dt)
    /\ UNCHANGED <<calls, started, faults>>

CorruptEntry(key) ==
    /\ faults < MaxFaults
    /\ key \in DOMAIN cache
    /\ ~JSONParseThrows(cache[key].payload)
    /\ cache' = [cache EXCEPT ![key].payload = NotJSON]
    /\ faults' = faults + 1
    /\ UNCHANGED <<now, calls, started, ticks>>

(***************************************************************************)
(* The specification                                                       *)
(***************************************************************************)
Init ==
    /\ cache = <<>>
    /\ now = StartTime
    /\ calls = <<>>
    /\ started = 0
    /\ ticks = 0
    /\ faults = 0

\* The single-user methods, called one after another.
Next ==
    \/ \E u \in Users, f \in Filters :
          started < MaxCalls /\ CallGetUserActivity(u, f)
    \/ \E u \in Users, w \in TimeRanges :
          started < MaxCalls /\ CallCalculateEngagementMetrics(u, w)
    \/ \E u \in Users :
          started < MaxCalls /\ CallInvalidateUserCache(u)
    \/ \E c \in DOMAIN calls : GUA_CacheRead(c)
    \/ \E c \in DOMAIN calls : GUA_SourceSuccess(c)
    \/ \E c \in DOMAIN calls : GUA_SourceFailure(c)
    \/ \E c \in DOMAIN calls : GUA_CacheWrite(c)
    \/ \E c \in DOMAIN calls : CEM_CacheRead(c)
    \/ \E c \in DOMAIN calls : CEM_ActivityReturned(c)
    \/ \E c \in DOMAIN calls : CEM_CacheWrite(c)
    \/ \E c \in DOMAIN calls : INV_Keys(c)
    \/ \E c \in DOMAIN calls : INV_Del(c)
    \/ \E dt \in TickSteps : Tick(dt)
    \/ \E key \in DOMAIN cache : CorruptEntry(key)

Spec == Init /\ [][Next]_vars

\* The bulk method: the store is empty, or holds the metrics of User1 computed
\* when the service started from the activities of 2023-05-01.
WarmCache ==
    LET command == setInCache(generateCacheKey(MetricsPrefix, User1, MetricsKeyFilter(None)),
                              processActivities(mockActivities(User1), StartTime),
                              metricsTtlSec)
    IN SetexOutcome(<<>>, command, FALSE, StartTime).store

InitBulk ==
    /\ cache \in {<<>>, WarmCache}
    /\ now = StartTime
    /\ calls = <<>>
    /\ started = 0
    /\ ticks = 0
    /\ faults = 0

NextBulk ==
    \/ \E ids \in UserIdLists, w \in TimeRanges :
          started < MaxBulkCalls /\ CallBulkProcessUserMetrics(ids, w)
    \/ \E c \in DOMAIN calls : GUA_CacheRead(c)
    \/ \E c \in DOMAIN calls : GUA_SourceSuccess(c)
    \/ \E c \in DOMAIN calls : GUA_SourceFailure(c)
    \/ \E c \in DOMAIN calls : GUA_CacheWrite(c)
    \/ \E c \in DOMAIN calls : CEM_CacheRead(c)
    \/ \E c \in DOMAIN calls : CEM_ActivityReturned(c)
    \/ \E c \in DOMAIN calls : CEM_CacheWrite(c)
    \/ \E c \in DOMAIN calls : Bulk_AllSettled(c)
    \/ \E dt \in BulkTickSteps : Tick(dt)
    \/ \E key \in DOMAIN cache : CorruptEntry(key)

SpecBulk == InitBulk /\ [][NextBulk]_vars

\* The bulk method on an event loop that runs the continuation of a resolved
\* promise: once Promise.allSettled has resolved, the rest of the method runs.
\* Nothing is assumed of the store or of the API, which may never answer.
SpecBulkFair ==
    InitBulk /\ [][NextBulk]_vars /\ WF_vars(\E c \in DOMAIN calls : Bulk_AllSettled(c))

\* Invalidation, then the next call, on a store that earlier calls have
\* filled.  A user id is any string a caller passes: the third one holds a
\* backslash.
User3 == <<"u", "\\", "1">>
InvalidateUsers == Users \cup {User3}

\* The SETEX commands of getUserActivity(u), getUserActivity(u, {limit: 5})
\* and calculateEngagementMetrics(u) that were served by the API.
WarmCommands(userId) ==
    {setInCache(generateCacheKey(ActivityPrefix, userId, f), mockActivities(userId),
                activityTtlSec) : f \in Filters}
    \cup {setInCache(generateCacheKey(MetricsPrefix, userId, MetricsKeyFilter(None)),
                     processActivities(mockActivities(userId), StartTime),
                     metricsTtlSec)}

\* The store after those calls for each of the users, made when the service
\* started.
Warmed(users) ==
    LET commands == UNION {WarmCommands(u) : u \in users}
    IN [k \in {c.key : c \in commands} |->
           LET c == CHOOSE c \in commands : c.key = k
           IN SetexOutcome(<<>>, c, FALSE, StartTime).store[k]]

InitInvalidate ==
    /\ cache \in {Warmed(users) : users \in SUBSET InvalidateUsers}
    /\ now = StartTime
    /\ calls = <<>>
    /\ started = 0
    /\ ticks = 0
    /\ faults = 0

NextInvalidate ==
    \/ \E u \in InvalidateUsers :
          started < MaxCalls /\ CallInvalidateUserCache(u)
    \/ \E u \in InvalidateUsers, f \in RequestFilters :
          started < MaxCalls /\ CallGetUserActivity(u, f)
    \/ \E u \in InvalidateUsers, w \in TimeRanges :
          started < MaxCalls /\ CallCalculateEngagementMetrics(u, w)
    \/ \E c \in DOMAIN calls : INV_Keys(c)
    \/ \E c \in DOMAIN calls : INV_Del(c)
    \/ \E c \in DOMAIN calls : GUA_CacheRead(c)
    \/ \E c \in DOMAIN calls : GUA_SourceSuccess(c)
    \/ \E c \in DOMAIN calls : GUA_SourceFailure(c)
    \/ \E c \in DOMAIN calls : GUA_CacheWrite(c)
    \/ \E c \in DOMAIN calls : CEM_CacheRead(c)
    \/ \E c \in DOMAIN calls : CEM_ActivityReturned(c)
    \/ \E c \in DOMAIN calls : CEM_CacheWrite(c)

SpecInvalidate == InitInvalidate /\ [][NextInvalidate]_vars

\* Key derivation: the single-user calls made with filters of up to MaxFields
\* properties, in every order of insertion, each property with a value or
\* undefined, up to the read of the key derived.
TypeName == <<"t", "y", "p", "e">>
MaxFields == 3

KeyEntries ==
    {[name |-> LimitName, val |-> v] : v \in {NumVal(5), NumVal(10), Undefined}}
    \cup {[name |-> TypeName, val |-> v] :
             v \in {StrVal(<<"C", "L", "I", "C", "K">>), Undefined}}
    \cup {[name |-> StartDateName, val |-> v] :
             v \in {StrVal(toISOString(StartTime)), Undefined}}

KeyFilters ==
    {None} \cup
    {Some(f) : f \in UNION {{g \in [1..n -> KeyEntries] :
                               \A i \in 1..n, j \in 1..n :
                                   g[i].name = g[j].name => i = j} :
                            n \in 0..MaxFields}}

NextKeys ==
    \/ \E u \in Users, f \in KeyFilters :
          started < MaxCalls /\ CallGetUserActivity(u, f)
    \/ \E u \in Users, w \in TimeRanges :
          started < MaxCalls /\ CallCalculateEngagementMetrics(u, w)
    \/ \E c \in DOMAIN calls : GUA_CacheRead(c)
    \/ \E c \in DOMAIN calls : CEM_CacheRead(c)

SpecKeys == Init /\ [][NextKeys]_vars

\* Aggregation: calculateEngagementMetrics for the first user, on a store in
\* which an earlier getUserActivity has cached what the API answered: any list
\* of up to MaxActivities of seven activities.  The clock is at 2023-05-02
\* 10:30, a Tuesday; the activities are of the Monday before at 11:00, of the
\* Sunday before that at 10:00 and at 11:00, of a year later, of 2020, and
\* of the Saturday at 10:30 with a duration of 45 s, and of 1969-12-31 at 00:00.
MaxActivities == 3

ActivityPool ==
    {Activity("a1", User1, "PAGE_VIEW", toISOString(StartTime - SecondsPerDay + 1800), None),
     Activity("a2", User1, "CLICK",
              toISOString(StartTime - (2 * SecondsPerDay) - 1800), Some(120)),
     Activity("a3", User1, "VIDEO_PLAY",
              toISOString(StartTime - (2 * SecondsPerDay) + 1800), Some(100000)),
     Activity("a4", User1, "PAGE_VIEW", toISOString(StartTime + (365 * SecondsPerDay)), None),
     Activity("a5", User1, "CLICK", toISOString(18262 * SecondsPerDay), Some(0)),
     Activity("a6", User1, "SCROLL", toISOString(StartTime - (3 * SecondsPerDay)), Some(45)),
     Activity("a7", User1, "DOWNLOAD", toISOString(0 - SecondsPerDay), None)}

ActivityLists == UNION {[1..n -> ActivityPool] : n \in 0..MaxActivities}

Answered(activities) ==
    SetexOutcome(<<>>,
                 setInCache(generateCacheKey(ActivityPrefix, User1, FetchFilter(None, StartTime)),
                            activities, activityTtlSec),
                 FALSE, StartTime).store

InitAggregate ==
    /\ cache \in {Answered(activities) : activities \in ActivityLists}
    /\ now = StartTime
    /\ calls = <<>>
    /\ started = 0
    /\ ticks = 0
    /\ faults = 0

NextAggregate ==
    \/ \E w \in TimeRanges :
          started < MaxBulkCalls /\ CallCalculateEngagementMetrics(User1, w)
    \/ \E c \in DOMAIN calls : GUA_CacheRead(c)
    \/ \E c \in DOMAIN calls : GUA_SourceSuccess(c)
    \/ \E c \in DOMAIN calls : GUA_SourceFailure(c)
    \/ \E c \in DOMAIN calls : GUA_CacheWrite(c)
    \/ \E c \in DOMAIN calls : CEM_CacheRead(c)
    \/ \E c \in DOMAIN calls : CEM_ActivityReturned(c)
    \/ \E c \in DOMAIN calls : CEM_CacheWrite(c)

SpecAggregate == InitAggregate /\ [][NextAggregate]_vars

\* The single-user reads on a store whose SETEX may never complete.  The
\* store answers every GET that getUserActivity issues, and the API answers
\* or the request times out after timeoutMs; nothing is assumed of a SETEX
\* that was issued.
NextStall ==
    \/ \E u \in Users, f \in Filters :
          started < MaxCalls /\ CallGetUserActivity(u, f)
    \/ \E u \in Users, w \in TimeRanges :
          started < MaxCalls /\ CallCalculateEngagementMetrics(u, w)
    \/ \E c \in DOMAIN calls : GUA_CacheRead(c)
    \/ \E c \in DOMAIN calls : GUA_SourceSuccess(c)
    \/ \E c \in DOMAIN calls : GUA_SourceFailure(c)
    \/ \E c \in DOMAIN calls : GUA_CacheWrite(c)
    \/ \E c \in DOMAIN calls : CEM_CacheRead(c)
    \/ \E c \in DOMAIN calls : CEM_ActivityReturned(c)
    \/ \E c \in DOMAIN calls : CEM_CacheWrite(c)

SpecStall ==
    /\ Init /\ [][NextStall]_vars
    /\ WF_vars(\E c \in DOMAIN calls : GUA_CacheRead(c))
    /\ WF_vars(\E c \in DOMAIN calls : GUA_SourceSuccess(c) \/ GUA_SourceFailure(c))

\* The time range as the engagement route passes it: nothing, or the number
\* parsed from the query, which may be 0 (?timeRange=0).
WindowRanges == TimeRanges \cup {Some(0)}

NextWindow ==
    \/ \E u \in Users, w \in WindowRanges :
          started < MaxCalls /\ CallCalculateEngagementMetrics(u, w)
    \/ \E c \in DOMAIN calls : GUA_CacheRead(c)
    \/ \E c \in DOMAIN calls : GUA_SourceSuccess(c)
    \/ \E c \in DOMAIN calls : GUA_SourceFailure(c)
    \/ \E c \in DOMAIN calls : GUA_CacheWrite(c)
    \/ \E c \in DOMAIN calls : CEM_CacheRead(c)
    \/ \E c \in DOMAIN calls : CEM_ActivityReturned(c)
    \/ \E c \in DOMAIN calls : CEM_CacheWrite(c)
    \/ \E dt \in TickSteps : Tick(dt)

SpecWindow == Init /\ [][NextWindow]_vars

\* The bulk method called for two distinct ids, of which one may extend the
\* other by a colon and a key prefix: u1, u1:activity and u1:metrics.
NestedUsers ==
    {User1,
     User1 \o <<":">> \o ActivityPrefix,
     User1 \o <<":">> \o MetricsPrefix}

NextBulkKeys ==
    \/ \E u \in NestedUsers, v \in NestedUsers, w \in TimeRanges :
          /\ u /= v /\ started < MaxBulkCalls
          /\ CallBulkProcessUserMetrics(<<u, v>>, w)
    \/ \E c \in DOMAIN calls : GUA_CacheRead(c)
    \/ \E c \in DOMAIN calls : GUA_SourceSuccess(c)
    \/ \E c \in DOMAIN calls : GUA_SourceFailure(c)
    \/ \E c \in DOMAIN calls : GUA_CacheWrite(c)
    \/ \E c \in DOMAIN calls : CEM_CacheRead(c)
    \/ \E c \in DOMAIN calls : CEM_ActivityReturned(c)
    \/ \E c \in DOMAIN calls : CEM_CacheWrite(c)
    \/ \E c \in DOMAIN calls : Bulk_AllSettled(c)

SpecBulkKeys == Init /\ [][NextBulkKeys]_vars

\* Requests for the first user handled while others are in flight: the
\* routes are async handlers, and a second request arrives while the first
\* awaits the store or the API.
MaxConcurrent == 2

CallAlongside(frame) ==
    /\ InFlight(calls) < MaxConcurrent
    /\ LET kept == Retained(calls)
           id == FreshIds(DOMAIN kept, 1)[1]
           answered == {g \in DOMAIN kept :
                           kept[g].userId = frame.userId /\ IsSome(kept[g].response)}
       IN calls' = Put(kept, id, [frame EXCEPT !.received = answered])
    /\ started' = started + 1
    /\ UNCHANGED <<cache, now, ticks, faults>>

NextRace ==
    \/ \E f \in Filters :
          started < MaxCalls /\ CallAlongside(GetUserActivityFrame(0, User1, f))
    \/ \E w \in TimeRanges :
          started < MaxCalls /\ CallAlongside(CalculateFrame(0, User1, w))
    \/ started < MaxCalls /\ CallAlongside(NewCall(InvalidateOp, 0, User1, "KEYS"))
    \/ \E c \in DOMAIN calls : GUA_CacheRead(c)
    \/ \E c \in DOMAIN calls : GUA_SourceSuccess(c)
    \/ \E c \in DOMAIN calls : GUA_SourceFailure(c)
    \/ \E c \in DOMAIN calls : GUA_CacheWrite(c)
    \/ \E c \in DOMAIN calls : CEM_CacheRead(c)
    \/ \E c \in DOMAIN calls : CEM_ActivityReturned(c)
    \/ \E c \in DOMAIN calls : CEM_CacheWrite(c)
    \/ \E c \in DOMAIN calls : INV_Keys(c)
    \/ \E c \in DOMAIN calls : INV_Del(c)

SpecRace == Init /\ [][NextRace]_vars

\* The filters the activity route builds from the query string, every
\* property listed and those not given undefined: type is CLICK or not
\* given, path is /a, /a&type=CLICK (?path=%2Fa%26type%3DCLICK) or not given.
PathName == <<"p", "a", "t", "h">>
AmpersandPath == <<"/", "a", "&">> \o TypeName \o <<"=", "C", "L", "I", "C", "K">>

RouteFilters ==
    {Some(<<[name |-> TypeName, val |-> type], [name |-> PathName, val |-> path]>>) :
        type \in {Undefined, StrVal(<<"C", "L", "I", "C", "K">>)},
        path \in {Undefined, StrVal(<<"/", "a">>), StrVal(AmpersandPath)}}

NextRoute ==
    \/ \E f \in RouteFilters :
          started < MaxCalls /\ CallGetUserActivity(User1, f)
    \/ \E w \in WindowRanges :
          started < MaxCalls /\ CallCalculateEngagementMetrics(User1, w)
    \/ \E c \in DOMAIN calls : GUA_CacheRead(c)
    \/ \E c \in DOMAIN calls : GUA_SourceSuccess(c)
    \/ \E c \in DOMAIN calls : GUA_SourceFailure(c)
    \/ \E c \in DOMAIN calls : GUA_CacheWrite(c)
    \/ \E c \in DOMAIN calls : CEM_CacheRead(c)
    \/ \E c \in DOMAIN calls : CEM_ActivityReturned(c)
    \/ \E c \in DOMAIN calls : CEM_CacheWrite(c)

SpecRoute == Init /\ [][NextRoute]_vars

\* The activity and engagement routes requested again for a user, one
\* request after the other.  The records of the requests already answered are kept, and
\* `received` notes the getUserActivity calls for the user that the API had
\* answered when the request was made.  Between two requests a second may
\* pass, or the time the activities stay cached.
ReuseTickSteps == {1, activityTtlSec}

CallLater(frame) ==
    /\ InFlight(calls) < MaxInFlight
    /\ LET id == FreshIds(DOMAIN calls, 1)[1]
           answered == {g \in DOMAIN calls :
                           calls[g].userId = frame.userId /\ IsSome(calls[g].response)}
       IN calls' = Put(calls, id, [frame EXCEPT !.received = answered])
    /\ started' = started + 1
    /\ UNCHANGED <<cache, now, ticks, faults>>

NextReuse ==
    \/ \E u \in Users, f \in Filters :
          started < MaxCalls /\ CallLater(GetUserActivityFrame(0, u, f))
    \/ \E u \in Users, w \in TimeRanges :
          started < MaxCalls /\ CallLater(CalculateFrame(0, u, w))
    \/ \E c \in DOMAIN calls : GUA_CacheRead(c)
    \/ \E c \in DOMAIN calls : GUA_SourceSuccess(c)
    \/ \E c \in DOMAIN calls : GUA_SourceFailure(c)
    \/ \E c \in DOMAIN calls : GUA_CacheWrite(c)
    \/ \E c \in DOMAIN calls : CEM_CacheRead(c)
    \/ \E c \in DOMAIN calls : CEM_ActivityReturned(c)
    \/ \E c \in DOMAIN calls : CEM_CacheWrite(c)
    \/ \E dt \in ReuseTickSteps : Tick(dt)

SpecReuse == Init /\ [][NextReuse]_vars

(***************************************************************************)
(* Properties                                                              *)
(***************************************************************************)
CallsOf(op) == {c \in DOMAIN calls : calls[c].op = op}

Range(seq) == {seq[i] : i \in 1..Len(seq)}

ReadReturned(call) == call.pc /= "CHECK_CACHE"

\* The store held an entry under the call's key when its read ran, the read did
\* not throw and the payload parsed: a cache hit.
ReadFound(call) ==
    /\ ReadReturned(call) /\ IsSome(call.found)
    /\ ~call.readFailed /\ ~JSONParseThrows(call.found[1])

\* The store held nothing under the call's key when its read ran: a cache miss.
ReadMissed(call) == ReadReturned(call) /\ call.found = None /\ ~call.readFailed

\* The read threw, or the payload found did not parse.
ReadBroken(call) ==
    /\ ReadReturned(call)
    /\ (call.readFailed \/ (IsSome(call.found) /\ JSONParseThrows(call.found[1])))

HasLog(call, level, message) ==
    \E i \in 1..Len(call.logs) :
        call.logs[i].level = level /\ call.logs[i].message = message

\* The call settles in this step.
Settles(c) ==
    /\ c \in DOMAIN calls /\ c \in DOMAIN calls'
    /\ ~Settled(calls[c]) /\ Settled(calls'[c])

\* C1: getUserActivity on a cache hit (the store holds an entry under the key
\* derived from the user and the filter, and the read returns it) is fulfilled
\* with the cached activities and issues no request to the API.
C1_CacheHitSkipsSource ==
    \A c \in CallsOf(GetUserActivityOp) :
        ReadFound(calls[c]) =>
            /\ calls[c].cacheKey =
                   generateCacheKey(ActivityPrefix, calls[c].userId, calls[c].filter)
            /\ calls[c].status = "fulfilled"
            /\ calls[c].value = JSONParse(calls[c].found[1])
            /\ calls[c].requests = <<>>

\* A caller's getUserActivity with a filter is served the three cached activities.
C1_Witness ==
    \E c \in CallsOf(GetUserActivityOp) :
        /\ ReadFound(calls[c]) /\ calls[c].parent = 0 /\ IsSome(calls[c].filter)
        /\ calls[c].status = "fulfilled" /\ Len(calls[c].value) = 3

\* C2: when getUserActivity settles after a cache miss and a successful request,
\* it has issued exactly one request, is fulfilled with exactly the activities
\* the API answered, and has issued one SETEX of those activities under the key
\* it read, with activityTtlSec; unless that SETEX threw, the store then holds
\* them under the key of an identical call, which would be a hit.
C2_Step ==
    \A c \in DOMAIN calls :
        (/\ Settles(c) /\ calls'[c].op = GetUserActivityOp
         /\ ReadMissed(calls'[c]) /\ IsSome(calls'[c].response))
        => LET call == calls'[c]
               records == call.response[1]
               key == generateCacheKey(ActivityPrefix, call.userId, call.filter)
           IN /\ call.status = "fulfilled" /\ call.value = records
              /\ Len(call.requests) = 1
              /\ call.requests[1].userId = call.userId
              /\ call.requests[1].params = call.filter
              /\ call.reads = <<key>>
              /\ call.writes = <<[key |-> key, ttl |-> activityTtlSec,
                                  payload |-> JSONStringify(records)]>>
              /\ ~call.writeFailed =>
                    /\ key \in DOMAIN cache'
                    /\ cache'[key].expiresAt = now + activityTtlSec
                    /\ IsHit(getFromCache(cache', key, FALSE).value)
                    /\ getFromCache(cache', key, FALSE).value = Some(records)

C2_MissFetchesOnceAndCaches == [][C2_Step]_vars

\* A filtered getUserActivity missed, fetched the three activities and left them
\* in the store.
C2_Witness ==
    \E c \in CallsOf(GetUserActivityOp) :
        /\ Settled(calls[c]) /\ ReadMissed(calls[c]) /\ IsSome(calls[c].filter)
        /\ IsSome(calls[c].response) /\ Len(calls[c].response[1]) = 3
        /\ ~calls[c].writeFailed /\ calls[c].cacheKey \in DOMAIN cache

\* C3: when the request of getUserActivity fails, the call is rejected with the
\* error the request failed with, after exactly one request, with an entry
\* logged at error level, no SETEX issued and the store as it was.
C3_Step ==
    \A c \in DOMAIN calls :
        (/\ Settles(c) /\ calls'[c].op = GetUserActivityOp
         /\ IsSome(calls'[c].failure))
        => LET call == calls'[c]
           IN /\ call.status = "rejected" /\ call.error = call.failure[1]
              /\ Len(call.requests) = 1
              /\ \E i \in 1..Len(call.logs) :
                    /\ call.logs[i].level = "error"
                    /\ call.logs[i].userId = Some(call.userId)
                    /\ call.logs[i].error = call.failure
              /\ call.writes = <<>>
              /\ cache' = cache

C3_SourceFailurePropagates == [][C3_Step]_vars

\* A caller's getUserActivity missed and was rejected with the API's error.
C3_Witness ==
    \E c \in CallsOf(GetUserActivityOp) :
        /\ calls[c].parent = 0 /\ ReadMissed(calls[c])
        /\ calls[c].status = "rejected" /\ calls[c].error \in SourceErrors

\* C4: calculateEngagementMetrics on a metrics-cache hit (the store holds an
\* entry under the metrics key of the user and the time range, and the read
\* returns it) is fulfilled with exactly the cached metrics; it reads no other
\* key, calls no getUserActivity and issues no request.
C4_MetricsHitReturnsCached ==
    \A c \in CallsOf(CalculateOp) :
        ReadFound(calls[c]) =>
            /\ calls[c].cacheKey =
                   generateCacheKey(MetricsPrefix, calls[c].userId,
                                    MetricsKeyFilter(calls[c].timeRangeInDays))
            /\ calls[c].status = "fulfilled"
            /\ calls[c].value = JSONParse(calls[c].found[1])
            /\ calls[c].reads = <<calls[c].cacheKey>>
            /\ calls[c].children = <<>>
            /\ calls[c].requests = <<>>
            /\ ~\E k \in DOMAIN calls : calls[k].parent = c

\* The metrics of three activities are served from the store for a time range.
C4_Witness ==
    \E c \in CallsOf(CalculateOp) :
        /\ ReadFound(calls[c]) /\ IsSome(calls[c].timeRangeInDays)
        /\ calls[c].status = "fulfilled" /\ calls[c].value.totalActivities = 3

\* C5: a calculateEngagementMetrics that went on to getUserActivity: if that
\* call was fulfilled, the result is the aggregation of exactly its activities
\* (at the clock of its return) and one SETEX of that result was issued under
\* the metrics key with metricsTtlSec, while the activities were written with
\* activityTtlSec; if it was rejected, the result is the same rejection and no
\* SETEX was issued.
C5_MetricsMissAggregatesFetched ==
    \A c \in CallsOf(CalculateOp) :
        (Settled(calls[c]) /\ ~ReadFound(calls[c])) =>
            /\ Len(calls[c].children) = 1
            /\ LET call == calls[c]
                   fetch == calls[call.children[1]]
                   key == generateCacheKey(MetricsPrefix, call.userId,
                                           MetricsKeyFilter(call.timeRangeInDays))
               IN /\ fetch.op = GetUserActivityOp /\ fetch.userId = call.userId
                  /\ fetch.status = "fulfilled" =>
                        /\ call.status = "fulfilled"
                        /\ call.value = processActivities(fetch.value, call.aggregatedAt)
                        /\ call.writes = <<[key |-> key, ttl |-> metricsTtlSec,
                                            payload |-> JSONStringify(call.value)]>>
                        /\ \A i \in 1..Len(fetch.writes) :
                              fetch.writes[i].ttl = activityTtlSec
                  /\ fetch.status = "rejected" =>
                        /\ call.status = "rejected" /\ call.error = fetch.error
                        /\ call.writes = <<>>

\* Metrics over a time range were aggregated from three fetched activities and
\* are in the store.
C5_Witness ==
    \E c \in CallsOf(CalculateOp) :
        /\ Settled(calls[c]) /\ ReadMissed(calls[c]) /\ IsSome(calls[c].timeRangeInDays)
        /\ calls[c].status = "fulfilled" /\ calls[c].value.totalActivities = 3
        /\ calls[c].value.engagementScore > 0
        /\ calls[c].cacheKey \in DOMAIN cache

\* C6: a cache read that throws, or finds a payload that does not parse, is a
\* miss with a warning logged: getUserActivity goes on to one request and
\* calculateEngagementMetrics to getUserActivity, the call is never rejected
\* with the store's error, and when the API answers the call is fulfilled with
\* that answer (its aggregation, for the metrics).
C6_ReadFailureIsMiss ==
    /\ \A c \in CallsOf(GetUserActivityOp) :
          ReadBroken(calls[c]) =>
              /\ HasLog(calls[c], "warn", "Cache retrieval failed, falling back to API")
              /\ Len(calls[c].requests) = 1
              /\ calls[c].error /= StoreError
              /\ (Settled(calls[c]) /\ IsSome(calls[c].response)) =>
                    /\ calls[c].status = "fulfilled"
                    /\ calls[c].value = calls[c].response[1]
    /\ \A c \in CallsOf(CalculateOp) :
          ReadBroken(calls[c]) =>
              /\ HasLog(calls[c], "warn", "Cache retrieval failed, falling back to API")
              /\ Len(calls[c].children) = 1
              /\ calls[c].error /= StoreError
              /\ (Settled(calls[c]) /\ IsSome(calls[calls[c].children[1]].response)) =>
                    /\ calls[c].status = "fulfilled"
                    /\ calls[c].value =
                         processActivities(calls[calls[c].children[1]].response[1],
                                           calls[c].aggregatedAt)

\* The store's get threw although it held an entry; the caller still got the
\* three activities the API answered.
C6_Witness ==
    \E c \in CallsOf(GetUserActivityOp) :
        /\ calls[c].readFailed /\ IsSome(calls[c].found) /\ calls[c].parent = 0
        /\ calls[c].status = "fulfilled" /\ Len(calls[c].value) = 3
        /\ calls[c].response = Some(calls[c].value)

\* C7: a SETEX that throws is logged at warning level and the call is still
\* fulfilled, with the activities fetched or with the metrics computed.
C7_WriteFailureNeverFails ==
    /\ \A c \in CallsOf(GetUserActivityOp) :
          calls[c].writeFailed =>
              /\ HasLog(calls[c], "warn", "Failed to cache data")
              /\ IsSome(calls[c].response)
              /\ calls[c].status = "fulfilled"
              /\ calls[c].value = calls[c].response[1]
    /\ \A c \in CallsOf(CalculateOp) :
          calls[c].writeFailed =>
              /\ HasLog(calls[c], "warn", "Failed to cache data")
              /\ calls[c].status = "fulfilled"
              /\ calls[c].value =
                   processActivities(calls[calls[c].children[1]].value,
                                     calls[c].aggregatedAt)

\* The SETEX of three fetched activities threw; the caller got them and the
\* store holds nothing under the key.
C7_Witness ==
    \E c \in CallsOf(GetUserActivityOp) :
        /\ calls[c].writeFailed /\ calls[c].parent = 0
        /\ calls[c].status = "fulfilled" /\ Len(calls[c].value) = 3
        /\ calls[c].cacheKey \notin DOMAIN cache

\* The per-user computations of a bulk call.
Computations(c) ==
    {k \in DOMAIN calls : calls[k].parent = c /\ calls[k].op = CalculateOp}

\* C8: the map a bulk call returns has as keys exactly the distinct input ids
\* whose calculateEngagementMetrics was fulfilled, each mapped to the metrics
\* that computation returned for that id.
C8_BulkMapIsTheSucceeded ==
    \A c \in CallsOf(BulkOp) :
        Settled(calls[c]) =>
            /\ DOMAIN calls[c].value =
                 {u \in Range(calls[c].userIds) :
                     \E k \in Computations(c) :
                         calls[k].userId = u /\ calls[k].status = "fulfilled"}
            /\ \A u \in DOMAIN calls[c].value :
                 \E k \in Computations(c) :
                     /\ calls[k].userId = u /\ calls[k].status = "fulfilled"
                     /\ calls[c].value[u] = calls[k].value

\* Of two users the second given failed: the map holds the first alone.
C8_Witness ==
    \E c \in CallsOf(BulkOp) :
        /\ Settled(calls[c]) /\ Len(calls[c].uniqueUserIds) = 2
        /\ calls[calls[c].children[1]].status = "fulfilled"
        /\ calls[calls[c].children[2]].status = "rejected"
        /\ DOMAIN calls[c].value = {calls[c].uniqueUserIds[1]}
        /\ calls[c].value[calls[c].uniqueUserIds[1]].totalActivities = 3

\* C9: a bulk call is never rejected: once every per-user computation has
\* settled, whatever the mix of fulfilled and rejected, it is fulfilled with a
\* map.
C9_BulkNeverFails ==
    \A c \in CallsOf(BulkOp) :
        /\ calls[c].status /= "rejected"
        /\ Settled(calls[c]) =>
              /\ calls[c].status = "fulfilled"
              /\ DOMAIN calls[c].value \subseteq Range(calls[c].userIds)

\* Both users' computations were rejected and the bulk call returned the empty
\* map.
C9_Witness ==
    \E c \in CallsOf(BulkOp) :
        /\ calls[c].status = "fulfilled" /\ Len(calls[c].children) = 2
        /\ \A k \in Computations(c) : calls[k].status = "rejected"
        /\ DOMAIN calls[c].value = {}

\* C10: a bulk call invokes calculateEngagementMetrics exactly once for each
\* distinct id of its input, with the time range it was given, however often
\* the id occurs.
C10_BulkDeduplicates ==
    \A c \in CallsOf(BulkOp) :
        /\ \A u \in Range(calls[c].userIds) :
              Cardinality({k \in Computations(c) : calls[k].userId = u}) = 1
        /\ \A k \in Computations(c) :
              /\ calls[k].userId \in Range(calls[c].userIds)
              /\ calls[k].timeRangeInDays = calls[c].timeRangeInDays
        /\ Cardinality(Computations(c)) = Cardinality(Range(calls[c].userIds))

\* The ids u1, u2, u1 led to two computations.
C10_Witness ==
    \E c \in CallsOf(BulkOp) :
        /\ calls[c].userIds = <<User1, User2, User1>>
        /\ Cardinality(Computations(c)) = 2
        /\ Settled(calls[c])

\* The guards of the steps of the per-user computation k, or of the
\* getUserActivity it awaits: the computation waits for its own store
\* command, or for its own getUserActivity, which waits for its own store
\* command or request.
CanProceed(k) ==
    \/ calls[k].pc \in {"CHECK_CACHE", "STORE_CACHE"}
    \/ /\ calls[k].pc = "FETCH_ACTIVITY" /\ Len(calls[k].children) = 1
       /\ LET g == calls[k].children[1]
          IN /\ g \in DOMAIN calls /\ calls[g].parent = k
             /\ calls[g].op = GetUserActivityOp
             /\ \/ Settled(calls[g])
                \/ calls[g].pc \in {"CHECK_CACHE", "CALL_SOURCE", "STORE_CACHE"}

\* From the moment a bulk call awaits: a computation exists for each distinct
\* id with its cache read issued; the call has returned only if all of them
\* have settled; a pending computation can take its next step whatever became
\* of the others; a computation is rejected by the failure of its own request
\* alone; and the returned map holds the result of every fulfilled one, with
\* one error entry logged for every rejected one.
C11_Join ==
    \A c \in CallsOf(BulkOp) :
        LET call == calls[c]
            rejected == {i \in 1..Len(call.children) :
                            calls[call.children[i]].status = "rejected"}
        IN /\ Len(call.children) = Len(call.uniqueUserIds)
           /\ \A i \in 1..Len(call.children) :
                 LET k == call.children[i]
                 IN /\ k \in DOMAIN calls
                    /\ calls[k].op = CalculateOp /\ calls[k].parent = c
                    /\ calls[k].userId = call.uniqueUserIds[i]
                    /\ Len(calls[k].reads) = 1
                    /\ ~Settled(calls[k]) => CanProceed(k)
                    /\ calls[k].status = "rejected" =>
                          /\ Len(calls[k].children) = 1
                          /\ IsSome(calls[calls[k].children[1]].failure)
                          /\ calls[k].error = calls[calls[k].children[1]].failure[1]
           /\ Settled(call) =>
                 /\ AllSettled(calls, call)
                 /\ \A i \in 1..Len(call.children) :
                       calls[call.children[i]].status = "fulfilled" =>
                          /\ call.uniqueUserIds[i] \in DOMAIN call.value
                          /\ call.value[call.uniqueUserIds[i]] =
                                calls[call.children[i]].value
                 /\ Cardinality({j \in 1..Len(call.logs) :
                                    call.logs[j].level = "error"})
                    = Cardinality(rejected)

\* While a bulk call is pending no computation is added to those it made, and
\* a step of one computation leaves every other computation of the call as it
\* was.
C11_Step ==
    \A c \in CallsOf(BulkOp) :
        (~Settled(calls[c]) /\ c \in DOMAIN calls') =>
            /\ {k \in DOMAIN calls' :
                   calls'[k].parent = c /\ calls'[k].op = CalculateOp}
               = Computations(c)
            /\ \A k1 \in Computations(c), k2 \in Computations(c) :
                  (k1 /= k2 /\ calls'[k1] /= calls[k1]) => calls'[k2] = calls[k2]

C11_Resolved == \E c \in CallsOf(BulkOp) : AllSettled(calls, calls[c])

C11_Returned == \E c \in CallsOf(BulkOp) : Settled(calls[c])

\* C11: a bulk call dispatches the computation of every distinct id before it
\* awaits any, returns only after all of them have settled, a failure or a
\* delay of one never cancels another or keeps its result out of the map, and
\* once every computation has settled the bulk call eventually returns.
C11_AllSettleFanOutFanIn ==
    /\ []C11_Join
    /\ [][C11_Step]_vars
    /\ (C11_Resolved ~> C11_Returned)

\* The first user's computation was rejected, time passed, and the second
\* user's was then fulfilled from the API; the bulk call returned the second
\* user's metrics.
C11_Witness ==
    \E c \in CallsOf(BulkOp) :
        /\ Settled(calls[c]) /\ Len(calls[c].children) = 2 /\ ticks = 1
        /\ calls[calls[c].children[1]].status = "rejected"
        /\ calls[calls[c].children[2]].status = "fulfilled"
        /\ calls[calls[c].children[2]].aggregatedAt > StartTime
        /\ DOMAIN calls[c].value = {calls[c].uniqueUserIds[2]}
        /\ calls[c].value[calls[c].uniqueUserIds[2]].totalActivities = 3

\* The key is one generateCacheKey derives for the user: the root, the user id
\* and a prefix, alone or followed by a tag.
IsKeyOf(userId, key) ==
    \E prefix \in {ActivityPrefix, MetricsPrefix} :
        LET base == KeyRoot \o <<":">> \o userId \o <<":">> \o prefix
        IN \/ key = base
           \/ /\ Len(key) > Len(base) + 1
              /\ SubSeq(key, 1, Len(base) + 1) = base \o <<":">>

KeysOf(store, userId) == {k \in DOMAIN store : IsKeyOf(userId, k)}

\* The top-level call made in this step, if one is.
Made(c) ==
    /\ started' = started + 1
    /\ c \in DOMAIN calls' /\ calls'[c].parent = 0 /\ ~Settled(calls'[c])

\* While the record of a fulfilled invalidateUserCache(u), u among `users`, is
\* the last call made, the store holds no key of u, and at most one DEL was
\* issued.
C12_ClearedFor(users) ==
    \A c \in CallsOf(InvalidateOp) :
        (calls[c].status = "fulfilled" /\ calls[c].userId \in users) =>
            /\ KeysOf(cache, calls[c].userId) = {}
            /\ Len(calls[c].dels) <= 1

\* The step in which invalidateUserCache(u) is fulfilled leaves the store
\* without the keys of u, all of them named in the one DEL if there were any;
\* and the getUserActivity(u, .) or calculateEngagementMetrics(u, .) made next
\* reads a key the store does not hold, so that its read leads to the request:
\* directly, or through a getUserActivity whose key the store does not hold
\* either.
C12_StepFor(users) ==
    /\ \A c \in CallsOf(InvalidateOp) :
          (Settles(c) /\ calls'[c].status = "fulfilled" /\ calls[c].userId \in users) =>
              LET mine == KeysOf(cache, calls[c].userId)
              IN /\ cache' = Del(cache, mine)
                 /\ mine /= {} => (calls'[c].dels = <<calls'[c].keys>>
                                   /\ mine \subseteq calls'[c].keys)
    /\ \A i \in CallsOf(InvalidateOp), c \in DOMAIN calls' :
          (/\ calls[i].status = "fulfilled" /\ calls[i].userId \in users
           /\ Made(c) /\ calls'[c].userId = calls[i].userId
           /\ calls'[c].op \in {GetUserActivityOp, CalculateOp}) =>
              LET call == calls'[c]
                  read == getFromCache(cache', call.cacheKey, FALSE)
              IN /\ call.cacheKey \notin DOMAIN cache'
                 /\ call.op = GetUserActivityOp =>
                       LET after == AfterActivityRead(call, read.value, read.warned)
                       IN after.pc = "CALL_SOURCE" /\ Len(after.requests) = 1
                 /\ call.op = CalculateOp =>
                       LET after == AfterMetricsRead(call, read.value, read.warned, 0)
                           fetch == GetUserActivityFrame(c, call.userId,
                                        FetchFilter(call.timeRangeInDays, now'))
                       IN /\ after.pc = "FETCH_ACTIVITY"
                          /\ fetch.cacheKey \notin DOMAIN cache'

\* C12: once invalidateUserCache(u) has completed, with nothing else in flight,
\* the store holds no entry of u under either prefix, whatever the filter or
\* the time range; the keys were deleted in one DEL; and the next
\* getUserActivity(u, .) or calculateEngagementMetrics(u, .) goes to the API.
\* Stated for every user id.
C12_InvalidateClearsSubject ==
    /\ []C12_ClearedFor(InvalidateUsers)
    /\ [][C12_StepFor(InvalidateUsers)]_vars

\* The same for the user ids that hold no character special in a KEYS pattern.
C12_ClearsPlainIds ==
    /\ []C12_ClearedFor(Users)
    /\ [][C12_StepFor(Users)]_vars

\* invalidateUserCache of the id with the backslash was fulfilled after one
\* DEL, of the keys of another user, and the store still holds the activities,
\* filtered and not, and the metrics cached for the id.
C12_Witness ==
    \E c \in CallsOf(InvalidateOp) :
        /\ calls[c].userId = User3 /\ calls[c].status = "fulfilled"
        /\ Len(calls[c].dels) = 1
        /\ calls[c].dels[1] = calls[c].keys /\ calls[c].keys /= {}
        /\ \A k \in calls[c].keys : IsKeyOf(User1, k)
        /\ Cardinality(KeysOf(cache, User3)) = 3

\* The KEYS command of the call returns in this step.
KeysReturns(c) ==
    /\ c \in DOMAIN calls' /\ calls[c].op = InvalidateOp
    /\ calls[c].pc = "KEYS" /\ calls'[c].pc /= "KEYS"
    /\ faults' = faults

\* C13: when KEYS returns no key for the pattern of the user, the call is
\* fulfilled in that step without a DEL, the store is as it was, and the one
\* entry logged is at debug level.
C13_Step ==
    \A c \in DOMAIN calls :
        (KeysReturns(c) /\ Keys(cache, InvalidationPattern(calls[c].userId)) = {})
        => /\ calls'[c].status = "fulfilled"
           /\ calls'[c].dels = <<>>
           /\ cache' = cache
           /\ Len(calls'[c].logs) = 1
           /\ calls'[c].logs[1].level = "debug"
           /\ calls'[c].logs[1].message = "No cache to invalidate"
           /\ calls'[c].logs[1].userId = Some(calls[c].userId)

C13_InvalidationNoOp == [][C13_Step]_vars

\* The second user had nothing cached: the call was fulfilled without a DEL
\* and the three entries of the first user are still in the store.
C13_Witness ==
    \E c \in CallsOf(InvalidateOp) :
        /\ calls[c].userId = User2 /\ calls[c].status = "fulfilled"
        /\ calls[c].dels = <<>> /\ HasLog(calls[c], "debug", "No cache to invalidate")
        /\ Cardinality(KeysOf(cache, User1)) = 3

\* The KEYS or the DEL command of the call throws in this step.
StoreCommandFails(c) ==
    /\ c \in DOMAIN calls' /\ calls[c].op = InvalidateOp
    /\ calls[c].pc \in {"KEYS", "DEL"} /\ calls'[c] /= calls[c]
    /\ faults' = faults + 1

\* C14: when the KEYS or the DEL command of invalidateUserCache throws, the
\* call logs 'Failed to invalidate user cache' at error level, with the user
\* and the error, and is rejected with that error; the store is as it was.
C14_Step ==
    \A c \in DOMAIN calls :
        StoreCommandFails(c) =>
            /\ calls'[c].status = "rejected"
            /\ calls'[c].error = StoreError
            /\ calls'[c].logs = calls[c].logs \o
                  <<LogEntry("error", "Failed to invalidate user cache",
                             Some(calls[c].userId), Some(StoreError))>>
            /\ calls'[c].dels = calls[c].dels
            /\ cache' = cache

C14_InvalidateFailurePropagates == [][C14_Step]_vars

\* The DEL of the first user's three keys threw: the call was rejected with
\* the store's error and the entries are still there.
C14_Witness ==
    \E c \in CallsOf(InvalidateOp) :
        /\ calls[c].userId = User1 /\ calls[c].status = "rejected"
        /\ calls[c].error = StoreError /\ Len(calls[c].dels) = 1
        /\ Cardinality(calls[c].keys) = 3 /\ calls[c].keys \subseteq DOMAIN cache
        /\ HasLog(calls[c], "error", "Failed to invalidate user cache")

\* The getUserActivity calls made with an endDate that precedes the startDate.
BackwardCalls ==
    {c \in CallsOf(GetUserActivityOp) : EndsBeforeStart(calls[c].filter)}

\* C15, as claimed: getUserActivity with a filter whose endDate precedes its
\* startDate fails with a validation error, and neither a cache read nor a
\* request is made.
C15_MalformedFilterRejected ==
    \A c \in BackwardCalls :
        /\ calls[c].reads = <<>> /\ calls[c].requests = <<>>
        /\ Settled(calls[c]) =>
              (calls[c].status = "rejected" /\ calls[c].error = "ValidationError")

\* C15, as the code has it: the filter is not examined.  The call derives its
\* key from both dates, reads the cache, and on a miss sends the request with
\* the filter as its parameters; it is fulfilled with what the cache holds or
\* the API answers, and rejected only with the API's error.
C15_FilterNotValidated ==
    \A c \in BackwardCalls :
        LET call == calls[c]
        IN /\ call.cacheKey = generateCacheKey(ActivityPrefix, call.userId, call.filter)
           /\ call.reads = <<call.cacheKey>>
           /\ (ReadReturned(call) /\ ~ReadFound(call)) =>
                 /\ Len(call.requests) = 1
                 /\ call.requests[1].params = call.filter
           /\ (Settled(call) /\ IsSome(call.response)) =>
                 (call.status = "fulfilled" /\ call.value = call.response[1])
           /\ call.status = "rejected" =>
                 (IsSome(call.failure) /\ call.error = call.failure[1])

\* A call with the backward window was fulfilled with the three activities the
\* API answered to it, and they are cached under its key.
C15_Witness ==
    \E c \in BackwardCalls :
        /\ calls[c].status = "fulfilled" /\ calls[c].parent = 0
        /\ Len(calls[c].requests) = 1 /\ Len(calls[c].value) = 3
        /\ calls[c].cacheKey \in DOMAIN cache

\* The (property, value) pairs of a filter whose value is not undefined.
Present(filter) ==
    IF IsSome(filter)
    THEN {<<filter[1][i].name, filter[1][i].val>> :
             i \in {j \in 1..Len(filter[1]) : IsDefined(filter[1][j])}}
    ELSE {}

\* C16: for a prefix and a user id, the key generateCacheKey derives is the
\* same for every filter with the same set of (property, value) pairs whose
\* value is not undefined, in whatever order they were inserted; and with no
\* such pair (no filter, an empty one, or undefined values only, like the
\* {timeRangeInDays: undefined} of the metrics key) it is the key without a
\* tag.
C16_CacheKeyDeterminism ==
    /\ \A c \in CallsOf(GetUserActivityOp) :
          calls[c].parent = 0 =>
              /\ \A g \in KeyFilters :
                    Present(g) = Present(calls[c].filter) =>
                        generateCacheKey(ActivityPrefix, calls[c].userId, g)
                            = calls[c].cacheKey
              /\ Present(calls[c].filter) = {} =>
                    calls[c].cacheKey =
                        KeyRoot \o <<":">> \o calls[c].userId \o <<":">> \o ActivityPrefix
    /\ \A c \in CallsOf(CalculateOp) :
          LET filter == MetricsKeyFilter(calls[c].timeRangeInDays)
          IN /\ calls[c].cacheKey =
                   generateCacheKey(MetricsPrefix, calls[c].userId, filter)
             /\ Present(filter) = {} =>
                   calls[c].cacheKey =
                       KeyRoot \o <<":">> \o calls[c].userId \o <<":">> \o MetricsPrefix

\* A call whose filter lists type, an undefined startDate and limit, in that
\* order, read the key tagged with the encoding of limit=5&type=CLICK.
C16_Witness ==
    \E c \in CallsOf(GetUserActivityOp) :
        /\ ReadReturned(calls[c]) /\ IsSome(calls[c].filter)
        /\ Len(calls[c].filter[1]) = 3
        /\ calls[c].filter[1][1].name = TypeName
        /\ calls[c].filter[1][2] = [name |-> StartDateName, val |-> Undefined]
        /\ calls[c].filter[1][3] = [name |-> LimitName, val |-> NumVal(5)]
        /\ calls[c].filter[1][1].val /= Undefined
        /\ calls[c].reads[1] =
              KeyRoot \o <<":">> \o calls[c].userId \o <<":">> \o ActivityPrefix
              \o <<":">> \o Base64(<<"l", "i", "m", "i", "t", "=", "5", "&",
                                     "t", "y", "p", "e", "=", "C", "L", "I", "C", "K">>)

\* The calculateEngagementMetrics calls that have aggregated the activities
\* their getUserActivity returned, and those activities.
Aggregated ==
    {c \in CallsOf(CalculateOp) :
        /\ calls[c].pc \in {"STORE_CACHE", "DONE"}
        /\ ~ReadFound(calls[c]) /\ calls[c].status /= "rejected"}

Input(c) == calls[calls[c].children[1]].value

\* C17: processActivities of no activity is the metrics with every number 0
\* and no activity type, and the call is fulfilled with them.
C17_EmptyInputAggregation ==
    \A c \in Aggregated :
        Input(c) = <<>> =>
            /\ calls[c].metrics =
                  [totalActivities |-> 0, activityByType |-> <<>>,
                   averageDurationSec |-> 0, mostActiveHour |-> 0,
                   mostActiveDay |-> 0, daysSinceLastActivity |-> 0,
                   engagementScore |-> 0]
            /\ Settled(calls[c]) =>
                  (calls[c].status = "fulfilled" /\ calls[c].value = calls[c].metrics)

\* The cached answer of the API was the empty list, and the call was fulfilled
\* with metrics that count no activity.
C17_Witness ==
    \E c \in Aggregated :
        /\ Input(c) = <<>> /\ ReadFound(calls[calls[c].children[1]])
        /\ calls[c].status = "fulfilled" /\ calls[c].value.totalActivities = 0
        /\ DOMAIN calls[c].value.activityByType = {}

\* C18: whatever the activities (dated after the clock, years before it, with
\* durations far above the cap), the engagementScore of the metrics is an
\* integer from 0 to 100: for activities that are not empty, the one
\* calculateEngagementScore gives.
C18_ScoreBounds ==
    \A c \in Aggregated :
        /\ calls[c].metrics.engagementScore \in 0..100
        /\ Len(Input(c)) > 0 =>
              calls[c].metrics.engagementScore =
                  calculateEngagementScore(calls[c].metrics)

\* Three activities of a year after the clock: the days since the last one
\* are negative and the score is 100.
C18_Witness ==
    \E c \in Aggregated :
        /\ Len(Input(c)) = 3
        /\ \A i \in 1..3 : DateParse(Input(c)[i].timestamp) > calls[c].aggregatedAt
        /\ calls[c].metrics.daysSinceLastActivity < 0
        /\ calls[c].metrics.engagementScore = 100

\* The number of the activities whose hour of the day, or day of the week, is i.
HourCount(activities, i) ==
    Cardinality({k \in 1..Len(activities) :
                    getHours(DateParse(activities[k].timestamp)) = i})

DayCount(activities, i) ==
    Cardinality({k \in 1..Len(activities) :
                    getDay(DateParse(activities[k].timestamp)) = i})

\* C19: for activities that are not empty, mostActiveHour is the lowest hour
\* 0..23 whose count is the maximum, and mostActiveDay the lowest day 0..6
\* whose count is the maximum.
C19_TieBreakLowestIndex ==
    \A c \in Aggregated :
        Len(Input(c)) > 0 =>
            LET hour == calls[c].metrics.mostActiveHour
                day == calls[c].metrics.mostActiveDay
            IN /\ hour \in 0..23 /\ day \in 0..6
               /\ \A h \in 0..23 :
                     /\ HourCount(Input(c), h) <= HourCount(Input(c), hour)
                     /\ HourCount(Input(c), h) = HourCount(Input(c), hour) => hour <= h
               /\ \A d \in 0..6 :
                     /\ DayCount(Input(c), d) <= DayCount(Input(c), day)
                     /\ DayCount(Input(c), d) = DayCount(Input(c), day) => day <= d

\* An activity of Monday at 11 followed by one of Sunday at 10: the hours and
\* the days each count one, and the most active hour is 10, the day Sunday.
C19_Witness ==
    \E c \in Aggregated :
        /\ Len(Input(c)) = 2
        /\ getHours(DateParse(Input(c)[1].timestamp)) = 11
        /\ getHours(DateParse(Input(c)[2].timestamp)) = 10
        /\ getDay(DateParse(Input(c)[1].timestamp)) = 1
        /\ getDay(DateParse(Input(c)[2].timestamp)) = 0
        /\ calls[c].metrics.mostActiveHour = 10
        /\ calls[c].metrics.mostActiveDay = 0

\* C20, as claimed: invalidateUserCache returns the number of keys it deleted,
\* 0 when no key matched.
C20_ReturnsDeletedCount ==
    \A c \in CallsOf(InvalidateOp) :
        calls[c].status = "fulfilled" =>
            calls[c].value = NumVal(IF calls[c].dels = <<>> THEN 0
                                    ELSE Cardinality(calls[c].dels[1]))

\* C20, as the code has it: invalidateUserCache is a Promise<void>, fulfilled
\* with undefined whether it handed keys to DEL or found none.
C20_ReturnsNothing ==
    \A c \in CallsOf(InvalidateOp) :
        calls[c].status = "fulfilled" => calls[c].value = Undefined

\* The three keys of the first user were deleted and the call returned
\* undefined.
C20_Witness ==
    \E c \in CallsOf(InvalidateOp) :
        /\ calls[c].status = "fulfilled" /\ calls[c].userId = User1
        /\ Len(calls[c].dels) = 1 /\ Cardinality(calls[c].dels[1]) = 3
        /\ KeysOf(cache, User1) = {}
        /\ calls[c].value = Undefined

\* A getUserActivity has received activities from the API; every one that has
\* is fulfilled with them.
C21_Received ==
    \E c \in CallsOf(GetUserActivityOp) : IsSome(calls[c].response)

C21_Returned ==
    \A c \in CallsOf(GetUserActivityOp) :
        IsSome(calls[c].response) =>
            calls[c].status = "fulfilled" /\ calls[c].value = calls[c].response[1]

\* The metrics have been computed from the activities fetched; every
\* computation that has is fulfilled with them.
C21_Computed ==
    \E c \in CallsOf(CalculateOp) : Len(calls[c].writes) > 0

C21_ReturnedMetrics ==
    \A c \in CallsOf(CalculateOp) :
        Len(calls[c].writes) > 0 =>
            calls[c].status = "fulfilled" /\ calls[c].value = calls[c].metrics

\* C21 as stated: once the API has answered a miss, getUserActivity returns
\* the activities whether or not the SETEX ever completes, and
\* calculateEngagementMetrics returns the metrics it computed whether or not
\* its SETEX ever completes.
C21_WriteNeverBlocks ==
    /\ C21_Received ~> C21_Returned
    /\ C21_Computed ~> C21_ReturnedMetrics

\* The SETEX command of the call settles in this step: the store takes the
\* entry, or the command throws and setInCache logs the warning.
C21_WriteSettles(c) ==
    LET command == calls[c].writes[Len(calls[c].writes)]
    IN \/ /\ ~calls'[c].writeFailed
          /\ cache' = Setex(cache, command.key, command.ttl, command.payload, now)
       \/ /\ calls'[c].writeFailed
          /\ cache' = cache
          /\ HasLog(calls'[c], "warn", "Failed to cache data")

\* A call that has issued its SETEX stays pending until the command settles,
\* and in the step it settles the call is fulfilled with what it fetched or
\* computed, whether the command succeeded or threw.
C21_Step ==
    \A c \in DOMAIN calls :
        (/\ calls[c].op \in {GetUserActivityOp, CalculateOp}
         /\ c \in DOMAIN calls' /\ ~Settled(calls[c]) /\ calls'[c] /= calls[c]
         /\ (Len(calls[c].writes) > 0 \/ Len(calls'[c].writes) > 0)) =>
            \/ /\ Len(calls[c].writes) = 0 /\ Len(calls'[c].writes) = 1
               /\ calls'[c].pc = "STORE_CACHE" /\ ~Settled(calls'[c])
               /\ cache' = cache
            \/ /\ calls[c].pc = "STORE_CACHE" /\ Len(calls[c].writes) = 1
               /\ C21_WriteSettles(c)
               /\ calls'[c].status = "fulfilled"
               /\ calls'[c].value =
                     IF calls[c].op = GetUserActivityOp THEN calls[c].response[1]
                     ELSE calls[c].metrics

\* C21, amended: the result of getUserActivity and of
\* calculateEngagementMetrics on a miss does not depend on whether the SETEX
\* succeeds, but the call awaits the command: it returns in the step the
\* command settles and not before.
C21_WriteAwaitedOutcomeIgnored ==
    /\ [](\A c \in DOMAIN calls :
            (Len(calls[c].writes) > 0 /\ calls[c].pc /= "STORE_CACHE") =>
                calls[c].status = "fulfilled")
    /\ [][C21_Step]_vars

\* A getUserActivity whose SETEX threw and a calculateEngagementMetrics whose
\* SETEX is outstanding: the first has returned its three activities, the
\* second is pending with its metrics computed.
C21_Witness ==
    \E k \in CallsOf(CalculateOp) :
        /\ calls[k].pc = "STORE_CACHE" /\ ~Settled(calls[k])
        /\ calls[k].metrics.totalActivities = 3
        /\ LET g == calls[k].children[1]
           IN /\ calls[g].writeFailed /\ calls[g].status = "fulfilled"
              /\ Len(calls[g].value) = 3

\* The metrics read of the computation misses in this step and its
\* getUserActivity is called.
C22_Fetches(c) ==
    /\ c \in DOMAIN calls /\ c \in DOMAIN calls'
    /\ calls[c].op = CalculateOp
    /\ calls[c].pc = "CHECK_CACHE" /\ calls'[c].pc = "FETCH_ACTIVITY"

\* The metrics key carries a tag for the time range.
C22_KeyHasWindow(call) ==
    call.cacheKey /= KeyRoot \o <<":">> \o call.userId \o <<":">> \o MetricsPrefix

\* The filter of the fetch for the time ranges in `ranges`: startDate is the
\* clock less the range when a range was given, and no property otherwise;
\* and the key carries a tag exactly when the filter carries a startDate.
C22_StepFor(ranges) ==
    \A c \in DOMAIN calls :
        (C22_Fetches(c) /\ calls[c].timeRangeInDays \in ranges) =>
            LET w == calls[c].timeRangeInDays
                fetch == calls'[calls'[c].children[1]]
                startDate == FilterValue(fetch.filter, StartDateName)
            IN /\ fetch.op = GetUserActivityOp /\ fetch.userId = calls[c].userId
               /\ IsSome(fetch.filter)
               /\ IsSome(w) =>
                     /\ Len(fetch.filter[1]) = 1
                     /\ startDate = StrVal(toISOString(now - (w[1] * SecondsPerDay)))
               /\ ~IsSome(w) => fetch.filter[1] = <<>>
               /\ C22_KeyHasWindow(calls[c]) <=> startDate /= Undefined

\* C22: on a metrics miss calculateEngagementMetrics(u, w) fetches with
\* startDate = now - w days for every w given, 0 included, and with no
\* startDate only when w is absent, so that the metrics key and the filter
\* agree on whether a time range was given.
C22_WindowDerivation == [][C22_StepFor(WindowRanges)]_vars

\* The same for the time ranges other than 0.
C22_NonZeroWindows == [][C22_StepFor(TimeRanges)]_vars

\* calculateEngagementMetrics(u, 0) fetched without a startDate, and cached
\* the metrics of all three activities under the key of the range 0.
C22_Witness ==
    \E c \in CallsOf(CalculateOp) :
        /\ calls[c].timeRangeInDays = Some(0) /\ calls[c].status = "fulfilled"
        /\ C22_KeyHasWindow(calls[c])
        /\ calls[calls[c].children[1]].filter = Some(<<>>)
        /\ calls[calls[c].children[1]].requests[1].params = Some(<<>>)
        /\ calls[c].cacheKey \in DOMAIN cache
        /\ calls[c].value.totalActivities = 3

\* The entries at error level that carry the user id.
C23_ErrorsNaming(call, userId) ==
    {i \in 1..Len(call.logs) :
        call.logs[i].level = "error" /\ call.logs[i].userId = Some(userId)}

\* C23: for every user whose computation inside a bulk call is rejected, an
\* entry at error level that carries the user's id has been logged: the one
\* the computation's own catch block logs before it rethrows, with the error
\* it rethrows.
C23_BulkFailureLoggedWithId ==
    \A c \in CallsOf(BulkOp) :
        \A k \in Computations(c) :
            calls[k].status = "rejected" =>
                \E i \in C23_ErrorsNaming(calls[k], calls[k].userId) :
                    /\ calls[k].logs[i].message = "Failed to calculate engagement metrics"
                    /\ calls[k].logs[i].error = Some(calls[k].error)

\* A bulk call for two users has returned; the second user's computation was
\* rejected and logged the error with the second user's id, while the entry
\* the bulk call itself logged for it carries no id.
C23_Witness ==
    \E c \in CallsOf(BulkOp) :
        /\ Settled(calls[c]) /\ calls[c].uniqueUserIds = <<User1, User2>>
        /\ calls[calls[c].children[1]].status = "fulfilled"
        /\ calls[calls[c].children[2]].status = "rejected"
        /\ C23_ErrorsNaming(calls[calls[c].children[2]], User2) /= {}
        /\ C23_ErrorsNaming(calls[calls[c].children[2]], User1) = {}
        /\ \E i \in 1..Len(calls[c].logs) :
              calls[c].logs[i].level = "error" /\ calls[c].logs[i].userId = None

\* The keys a call has read or written so far, and those a computation and
\* its getUserActivity have.
C24_KeysOfCall(call) ==
    Range(call.reads) \cup {call.writes[i].key : i \in 1..Len(call.writes)}

C24_KeysTouched(k) ==
    C24_KeysOfCall(calls[k])
    \cup UNION {C24_KeysOfCall(calls[g]) : g \in {j \in DOMAIN calls : calls[j].parent = k}}

\* C24: the computations a bulk call runs for two distinct ids never read or
\* write a common key, at any point of any interleaving.
C24_BulkKeysDisjoint ==
    \A c \in CallsOf(BulkOp) :
        \A k1 \in Computations(c), k2 \in Computations(c) :
            calls[k1].userId /= calls[k2].userId =>
                C24_KeysTouched(k1) \cap C24_KeysTouched(k2) = {}

\* The bulk call for u1 and u1:activity has returned, both computations
\* having fetched from the API and written their activities and metrics:
\* four keys, among them user-activity:u1:activity:activity.
C24_Witness ==
    \E c \in CallsOf(BulkOp) :
        /\ Settled(calls[c])
        /\ calls[c].uniqueUserIds = <<User1, User1 \o <<":">> \o ActivityPrefix>>
        /\ \A k \in Computations(c) :
              calls[k].status = "fulfilled" /\ Cardinality(C24_KeysTouched(k)) = 2
        /\ Cardinality(DOMAIN cache) = 4
        /\ (KeyRoot \o <<":">> \o User1 \o <<":">> \o ActivityPrefix
               \o <<":">> \o ActivityPrefix) \in DOMAIN cache

\* The sum of the durations of the first n activities, an activity without
\* a duration adding nothing.
RECURSIVE C25_DurationSum(_, _)
C25_DurationSum(activities, n) ==
    IF n = 0 THEN 0
    ELSE (IF IsSome(activities[n].durationSec) THEN activities[n].durationSec[1] ELSE 0)
         + C25_DurationSum(activities, n - 1)

\* C25: for activities that are not empty, averageDurationSec is the integer
\* nearest to (sum of the durations present) / (number of all activities), the
\* upper one when two are equally near; it is 0 when no activity has a
\* duration.
C25_AverageDuration ==
    \A c \in Aggregated :
        Len(Input(c)) > 0 =>
            LET n == Len(Input(c))
                sum == C25_DurationSum(Input(c), n)
                average == calls[c].metrics.averageDurationSec
            IN /\ average \in Int
               /\ (2 * n * average) - n <= 2 * sum
               /\ 2 * sum < (2 * n * average) + n
               /\ (\A i \in 1..n : ~IsSome(Input(c)[i].durationSec)) => average = 0

\* An activity of 45 s and one without a duration: the average is 23, the
\* rounding of 45 / 2.
C25_Witness ==
    \E c \in Aggregated :
        /\ Len(Input(c)) = 2
        /\ Input(c)[1].durationSec = Some(45) /\ Input(c)[2].durationSec = None
        /\ calls[c].metrics.averageDurationSec = 23
        /\ calls[c].status = "fulfilled"

\* The latest of the timestamps of the activities.
C26_Latest(activities) ==
    LET dates == {DateParse(activities[i].timestamp) : i \in 1..Len(activities)}
    IN CHOOSE t \in dates : \A d \in dates : d <= t

\* daysSinceLastActivity is the whole days, rounded down, from the latest
\* timestamp to the clock, for the inputs among `inputs`.
C26_DaysFor(inputs) ==
    \A c \in Aggregated :
        (Len(Input(c)) > 0 /\ Input(c) \in inputs) =>
            calls[c].metrics.daysSinceLastActivity =
                (calls[c].aggregatedAt - C26_Latest(Input(c))) \div SecondsPerDay

\* C26: for every input that is not empty, daysSinceLastActivity is
\* floor((now - latest) / 86400 s), latest being the maximum timestamp of the
\* input; a latest timestamp after the clock gives a negative number, which
\* is not clamped.
C26_DaysSinceLatest == C26_DaysFor(ActivityLists)

\* The same for the inputs with a timestamp after 1970-01-01T00:00:00Z.
C26_DaysSinceLatestAfterEpoch ==
    C26_DaysFor({activities \in ActivityLists :
                    Len(activities) > 0 /\ C26_Latest(activities) > 0})

\* The one activity is of 1969-12-31T00:00:00Z: the days reported are those
\* since 1970-01-01T00:00:00Z, one less than the days since the activity.
C26_Witness ==
    \E c \in Aggregated :
        /\ Len(Input(c)) = 1 /\ C26_Latest(Input(c)) = 0 - SecondsPerDay
        /\ calls[c].status = "fulfilled"
        /\ calls[c].value.daysSinceLastActivity = calls[c].aggregatedAt \div SecondsPerDay
        /\ (calls[c].aggregatedAt - C26_Latest(Input(c))) \div SecondsPerDay
             = calls[c].value.daysSinceLastActivity + 1

\* The sum of the counters of the kinds in `kinds`.
RECURSIVE C27_Sum(_, _)
C27_Sum(counts, kinds) ==
    IF kinds = {} THEN 0
    ELSE LET kind == CHOOSE k \in kinds : TRUE
         IN counts[kind] + C27_Sum(counts, kinds \ {kind})

\* C27: for activities that are not empty, activityByType has a counter for
\* exactly the kinds that occur, each the number of activities of its kind;
\* the counters add up to totalActivities, which is the number of activities.
C27_TypeCountsExact ==
    \A c \in Aggregated :
        Len(Input(c)) > 0 =>
            LET counts == calls[c].metrics.activityByType
                n == Len(Input(c))
            IN /\ DOMAIN counts = {Input(c)[i].type : i \in 1..n}
               /\ \A ty \in DOMAIN counts :
                     counts[ty] = Cardinality({i \in 1..n : Input(c)[i].type = ty})
               /\ calls[c].metrics.totalActivities = n
               /\ C27_Sum(counts, DOMAIN counts) = calls[c].metrics.totalActivities

\* A page view, a click and a page view: two kinds, counted 2 and 1.
C27_Witness ==
    \E c \in Aggregated :
        /\ Len(Input(c)) = 3 /\ calls[c].status = "fulfilled"
        /\ Input(c)[1].type = "PAGE_VIEW" /\ Input(c)[2].type = "CLICK"
        /\ Input(c)[3].type = "PAGE_VIEW"
        /\ DOMAIN calls[c].value.activityByType = {"PAGE_VIEW", "CLICK"}
        /\ calls[c].value.activityByType["PAGE_VIEW"] = 2
        /\ calls[c].value.activityByType["CLICK"] = 1
        /\ calls[c].value.totalActivities = 3

\* A step of an invalidateUserCache(u), u among `users`, leaves the entries
\* of every other user v as they were.
C28_StepFor(users) ==
    \A c \in CallsOf(InvalidateOp) :
        (/\ ~Settled(calls[c]) /\ c \in DOMAIN calls' /\ calls'[c] /= calls[c]
         /\ calls[c].userId \in users) =>
            \A v \in users \ {calls[c].userId} :
                \A k \in KeysOf(cache, v) :
                    k \in DOMAIN cache' /\ cache'[k] = cache[k]

\* C28: for distinct user ids u and v, invalidateUserCache(u) leaves every
\* entry cached for v, activities or metrics, unchanged.  Stated for every
\* user id.
C28_InvalidationIsolated == [][C28_StepFor(InvalidateUsers)]_vars

\* The same for the user ids that hold no character special in a KEYS pattern.
C28_PlainIdsIsolated == [][C28_StepFor(Users)]_vars

\* invalidateUserCache of the id u, backslash, 1 was fulfilled after the DEL
\* of three keys, all of them of the user u1, whose entries are gone.
C28_Witness ==
    \E c \in CallsOf(InvalidateOp) :
        /\ calls[c].userId = User3 /\ calls[c].status = "fulfilled"
        /\ Cardinality(calls[c].keys) = 3
        /\ \A k \in calls[c].keys : IsKeyOf(User1, k) /\ k \notin DOMAIN cache
        /\ KeysOf(cache, User1) = {}

\* The getUserActivity calls, made by the top-level call r or r itself, that
\* the API had answered when the invalidation i was made.
C29_AnsweredBefore(i, r) ==
    {g \in calls[i].received :
        /\ g \in DOMAIN calls /\ calls[g].op = GetUserActivityOp
        /\ IsSome(calls[g].response) /\ Root(calls, g) = r}

\* The store holds the activities the API answered to g, or the metrics
\* computed from them by the computation that called g.
C29_HoldsEntryOf(g) ==
    \/ /\ calls[g].cacheKey \in DOMAIN cache
       /\ cache[calls[g].cacheKey].payload = JSONStringify(calls[g].response[1])
    \/ /\ calls[g].parent /= 0
       /\ LET k == calls[g].parent
          IN /\ calls[k].cacheKey \in DOMAIN cache
             /\ calls[k].activities = calls[g].response[1]
             /\ cache[calls[k].cacheKey].payload = JSONStringify(calls[k].metrics)

\* C29: when an invalidateUserCache(u) and a getUserActivity(u, .) or
\* calculateEngagementMetrics(u, .) that was in flight with it have both
\* completed, the store holds no entry of u built from an answer of the API
\* that had arrived before the invalidation was called.
C29_InvalidationNotUndone ==
    \A i \in CallsOf(InvalidateOp), r \in DOMAIN calls :
        (/\ calls[i].status = "fulfilled"
         /\ calls[r].parent = 0 /\ calls[r].op \in {GetUserActivityOp, CalculateOp}
         /\ calls[r].userId = calls[i].userId /\ Settled(calls[r])) =>
            \A g \in C29_AnsweredBefore(i, r) : ~C29_HoldsEntryOf(g)

\* calculateEngagementMetrics(u1) had its three activities from the API when
\* invalidateUserCache(u1) was called; KEYS found the activities entry and
\* DEL removed it; the metrics computed from the activities were written
\* after KEYS had run.  Both calls are fulfilled and the store holds the
\* metrics.
C29_Witness ==
    \E i \in CallsOf(InvalidateOp), k \in CallsOf(CalculateOp) :
        /\ calls[i].status = "fulfilled" /\ calls[k].status = "fulfilled"
        /\ calls[k].parent = 0 /\ calls[k].userId = calls[i].userId
        /\ LET g == calls[k].children[1]
           IN /\ g \in C29_AnsweredBefore(i, k)
              /\ Len(calls[g].response[1]) = 3
              /\ calls[i].keys = {calls[g].cacheKey}
              /\ calls[i].dels = <<{calls[g].cacheKey}>>
        /\ DOMAIN cache = {calls[k].cacheKey}
        /\ cache[calls[k].cacheKey].payload = JSONStringify(calls[k].metrics)
        /\ calls[k].metrics.totalActivities = 3

\* No filter with other (property, value) pairs derives the key of a
\* getUserActivity, and no other time range the key of a computation.
C30_ActivityKeysApart ==
    \A c \in CallsOf(GetUserActivityOp) :
        calls[c].parent = 0 =>
            \A f \in RouteFilters :
                Present(f) /= Present(calls[c].filter) =>
                    generateCacheKey(ActivityPrefix, calls[c].userId, f)
                        /= calls[c].cacheKey

C30_MetricsKeysApart ==
    \A c \in CallsOf(CalculateOp) :
        \A w \in WindowRanges :
            w /= calls[c].timeRangeInDays =>
                generateCacheKey(MetricsPrefix, calls[c].userId, MetricsKeyFilter(w))
                    /= calls[c].cacheKey

\* A call made when the call before it has written its result reads the key
\* of that entry only if it has the same filter, or the same time range.
C30_Step ==
    \A c1 \in DOMAIN calls, c2 \in DOMAIN calls' :
        (/\ Made(c2) /\ calls[c1].parent = 0
         /\ calls[c1].op = calls'[c2].op
         /\ calls[c1].op \in {GetUserActivityOp, CalculateOp}
         /\ calls[c1].status = "fulfilled"
         /\ Len(calls[c1].writes) = 1 /\ ~calls[c1].writeFailed
         /\ calls[c1].cacheKey = calls'[c2].cacheKey) =>
            /\ Present(calls[c1].filter) = Present(calls'[c2].filter)
            /\ calls[c1].timeRangeInDays = calls'[c2].timeRangeInDays

\* C30: for one user and one prefix, filters whose sets of present
\* (property, value) pairs differ derive different keys, so that a hit never
\* returns activities stored for another filter, nor metrics stored for
\* another time range.
C30_KeysInjective ==
    /\ []C30_ActivityKeysApart
    /\ []C30_MetricsKeysApart
    /\ [][C30_Step]_vars

\* The part about the metrics keys.
C30_MetricsKeysInjective ==
    /\ []C30_MetricsKeysApart
    /\ [][\A c1 \in DOMAIN calls, c2 \in DOMAIN calls' :
            (/\ Made(c2) /\ calls[c1].parent = 0
             /\ calls[c1].op = CalculateOp /\ calls'[c2].op = CalculateOp
             /\ calls[c1].cacheKey = calls'[c2].cacheKey) =>
                calls[c1].timeRangeInDays = calls'[c2].timeRangeInDays]_vars

\* getUserActivity(u1, {type: CLICK, path: /a}) has cached the three
\* activities the API answered; the key is the one of {path: /a&type=CLICK},
\* and the read of a getUserActivity with that filter returns the three
\* activities without a request.
C30_Witness ==
    \E c \in CallsOf(GetUserActivityOp) :
        /\ calls[c].parent = 0 /\ calls[c].status = "fulfilled"
        /\ calls[c].filter = Some(<<[name |-> TypeName, val |-> StrVal(<<"C", "L", "I", "C", "K">>)],
                                    [name |-> PathName, val |-> StrVal(<<"/", "a">>)]>>)
        /\ IsSome(calls[c].response) /\ Len(calls[c].response[1]) = 3
        /\ calls[c].cacheKey \in DOMAIN cache
        /\ LET other == Some(<<[name |-> TypeName, val |-> Undefined],
                               [name |-> PathName, val |-> StrVal(AmpersandPath)]>>)
               next == GetUserActivityFrame(0, calls[c].userId, other)
               read == getFromCache(cache, next.cacheKey, FALSE)
               after == AfterActivityRead(next, read.value, read.warned)
           IN /\ Present(other) /= Present(calls[c].filter)
              /\ next.cacheKey = calls[c].cacheKey
              /\ after.status = "fulfilled" /\ after.value = calls[c].response[1]
              /\ Len(after.requests) = 0

\* The computation k cached raw records: its getUserActivity g had its answer
\* from the API and wrote it to the store, where the entry still is.
C31_CachedRawRecords(k) ==
    /\ calls[k].op = CalculateOp /\ calls[k].parent = 0
    /\ calls[k].status = "fulfilled" /\ calls[k].children /= <<>>
    /\ LET g == calls[calls[k].children[1]]
       IN /\ IsSome(g.response) /\ g.writes /= <<>> /\ ~g.writeFailed
          /\ g.cacheKey \in DOMAIN cache
          /\ cache[g.cacheKey].payload = JSONStringify(g.response[1])

\* The computation k was called after the getUserActivity of the computation
\* e had its answer, missed the metrics cache, and its own getUserActivity
\* has read the store, without a failure of the store, and written nothing.
C31_MissedAfter(k, e) ==
    /\ calls[k].op = CalculateOp /\ calls[k].parent = 0 /\ k /= e
    /\ calls[e].children[1] \in calls[k].received
    /\ calls[k].children /= <<>>
    /\ LET g == calls[calls[k].children[1]]
       IN ReadReturned(g) /\ ~g.readFailed /\ g.writes = <<>>

\* The getUserActivity of k was served from the raw records e cached.
C31_ServedFrom(k, e) ==
    LET g == calls[calls[k].children[1]]
        cached == calls[calls[e].children[1]]
    IN /\ ReadFound(g) /\ g.requests = <<>>
       /\ g.status = "fulfilled" /\ g.value = cached.response[1]

C31_ReusedFor(ranges) ==
    \A e \in DOMAIN calls, k \in DOMAIN calls :
        (/\ C31_CachedRawRecords(e) /\ C31_MissedAfter(k, e)
         /\ calls[k].userId = calls[e].userId
         /\ calls[k].timeRangeInDays = calls[e].timeRangeInDays
         /\ calls[k].timeRangeInDays \in ranges) => C31_ServedFrom(k, e)

\* C31: a calculateEngagementMetrics(u, w) that misses the metrics cache
\* after an earlier calculateEngagementMetrics(u, w) cached raw records that
\* have not expired is served from those records and sends no request to the
\* API, whether w is absent or given.
C31_RawRecordsReused == C31_ReusedFor(TimeRanges)

\* The same for the computations called without a time range.
C31_ReusedWithoutWindow == C31_ReusedFor({None})

\* calculateEngagementMetrics(u, 7) cached the raw records; a second later,
\* with the entry still in the store, calculateEngagementMetrics(u, 7)
\* missed the metrics cache, read the store under another activity key, found
\* nothing and sent its request to the API.
C31_Witness ==
    \E e \in DOMAIN calls, k \in DOMAIN calls :
        /\ C31_CachedRawRecords(e) /\ C31_MissedAfter(k, e)
        /\ calls[k].userId = calls[e].userId
        /\ calls[e].timeRangeInDays = Some(7) /\ calls[k].timeRangeInDays = Some(7)
        /\ LET g == calls[calls[k].children[1]]
               cached == calls[calls[e].children[1]]
           IN /\ cache[cached.cacheKey].expiresAt > now
              /\ g.cacheKey /= cached.cacheKey
              /\ ReadMissed(g) /\ Len(g.requests) = 1
              /\ FilterValue(g.filter, StartDateName) =
                    StrVal(toISOString(SubtractDays(now, 7)))
              /\ FilterValue(cached.filter, StartDateName) =
                    StrVal(toISOString(SubtractDays(now - 1, 7)))

\* The API answered the empty list to the getUserActivity g.
C32_AnsweredEmpty(g) ==
    /\ g \in DOMAIN calls /\ calls[g].op = GetUserActivityOp
    /\ calls[g].response = Some(<<>>)

\* The SETEX of a getUserActivity that was answered the empty list completes
\* in this step: the store then holds the empty list under the key of the
\* call, for activityTtlSec, and the call returns the empty list.
C32_Step ==
    \A g \in DOMAIN calls :
        (/\ C32_AnsweredEmpty(g) /\ calls[g].pc = "STORE_CACHE"
         /\ g \in DOMAIN calls' /\ calls'[g].pc = "DONE" /\ ~calls'[g].writeFailed) =>
            /\ calls[g].writes = <<setInCache(calls[g].cacheKey, <<>>, activityTtlSec)>>
            /\ calls[g].cacheKey \in DOMAIN cache'
            /\ cache'[calls[g].cacheKey] =
                  [payload |-> JSONStringify(<<>>), expiresAt |-> now + activityTtlSec]
            /\ calls'[g].status = "fulfilled" /\ calls'[g].value = <<>>

\* A getUserActivity called after the empty list was cached under its key,
\* whose read found that entry in the store, is a hit: it returns the empty
\* list and sends no request to the API.
C32_Following ==
    \A e \in DOMAIN calls, g \in CallsOf(GetUserActivityOp) :
        (/\ C32_AnsweredEmpty(e) /\ e \in calls[g].received
         /\ calls[e].pc = "DONE" /\ ~calls[e].writeFailed
         /\ calls[g].cacheKey = calls[e].cacheKey
         /\ ReadReturned(calls[g]) /\ ~calls[g].readFailed
         /\ calls[g].found = Some(JSONStringify(<<>>))) =>
            /\ ReadFound(calls[g])
            /\ calls[g].requests = <<>> /\ calls[g].writes = <<>>
            /\ calls[g].status = "fulfilled" /\ calls[g].value = <<>>
            /\ HasLog(calls[g], "debug", "Retrieved user activity from cache")

\* C32: when the API returns the empty list on a miss, the list is written
\* to the store like any other, and a following getUserActivity for the same
\* key is a hit that returns the empty list without calling the API.
C32_EmptyResultCached == []C32_Following /\ [][C32_Step]_vars

\* getUserActivity(u, f) missed, was answered the empty list and cached it;
\* a second later getUserActivity(u, f) found the entry, with 299 s left to
\* live, and returned the empty list without a request.
C32_Witness ==
    \E e \in CallsOf(GetUserActivityOp), g \in CallsOf(GetUserActivityOp) :
        /\ calls[e].parent = 0 /\ calls[g].parent = 0
        /\ C32_AnsweredEmpty(e) /\ e \in calls[g].received
        /\ ReadMissed(calls[e]) /\ Len(calls[e].requests) = 1
        /\ calls[e].status = "fulfilled" /\ ~calls[e].writeFailed
        /\ calls[g].cacheKey = calls[e].cacheKey
        /\ calls[g].found = Some(JSONStringify(<<>>)) /\ ReadFound(calls[g])
        /\ calls[g].requests = <<>>
        /\ calls[g].status = "fulfilled" /\ calls[g].value = <<>>
        /\ now = StartTime + 1
        /\ cache[calls[g].cacheKey] =
              [payload |-> JSONStringify(<<>>), expiresAt |-> StartTime + activityTtlSec]

=============================================================================
